---- MODULE Spec2Model ----
(***************************************************************************)
(* Verification model of the Telegram storefront bot                       *)
(* (Atubu88/google-sheets-bot).                                            *)
(*                                                                         *)
(* The specifications of this module, each over its own variables:         *)
(*   GateSpec     the pure gate function should_send_now                   *)
(*   PromoSpec    promo_tick / broadcast_promo tasks on one event loop     *)
(*   OrderSpec    the checkout conversation of one chat                    *)
(*   SenderSpec   SafeSender and the flush of the blocked chats            *)
(*   RunSpec      one run of _broadcast_promo_impl over the users sheet    *)
(*   PhoneSpec    normalize_ua_phone                                       *)
(*   DeliverySpec the city/branch text from entry to the CRM comment       *)
(*   EntrySpec    the answer and back handlers of the conversation         *)
(*   RenderSpec   the Bot API calls that render a step                     *)
(*   UsersSpec    UserService.ensure_user_record tasks                     *)
(*   RetrySpec    _send_products_with_retry                                *)
(*   FlushSpec    SenderSpec with every flush run to its end               *)
(*   CardsSpec    the batches of a broadcast, card by card                 *)
(*   StatusSpec   the writers of one user's status cell                    *)
(*   CacheSpec    ProductService: the cache and its refresh                *)
(* Time is counted in whole hours since an epoch that is midnight UTC.     *)
(***************************************************************************)
EXTENDS Integers, Sequences, FiniteSets, TLC

VARIABLES
    \* ---- GateSpec
    gateSettings,   \* PromoSettings handed to should_send_now
    gateNow,        \* the datetime handed to should_send_now (UTC hour)
    gateResult,     \* <<>> before the call, <<b>> after it returned b
    \* ---- PromoSpec
    clock,          \* wall clock, UTC hour
    sheet,          \* the data row of the promo_settings worksheet
    tasks,          \* the coroutines running promo_tick / send_promo
    lockHeld,       \* _broadcast_lock._locked
    lockWaiters,    \* _broadcast_lock._waiters, in arrival order
    pending,        \* SafeSender._forbidden_chat_ids
    dirStatus,      \* users worksheet: chat id -> status column
    tickSends,      \* history: [chat, due day] -> broadcasts received from ticks
    spawned,        \* history: number of tasks started so far
    doneDays,       \* history: days for which a scheduler tick attempted all chats and ended
    lastReturn,     \* history: how the latest broadcast_promo call ended
    writeFailed,    \* history: some update_last_sent_date call has raised
    \* ---- OrderSpec
    fsmState,       \* MemoryStorage: the FSM state of the chat ("None" when absent)
    fsmData,        \* MemoryStorage: the conversation data of the chat
    selected,       \* buy._selected_products[chat]
    customer,       \* the user's row of the customers table
    nextMessageId,  \* the id of the next order card sent to the chat
    keyboards,      \* Telegram: the inline keyboard each order card shows
    handlers,       \* submit_order / confirm_existing_order coroutines in flight
    conversation,   \* history: conversations started by confirm_order_callback
    deliveries,     \* history: confirmation callbacks that entered a handler
    crmCalls,       \* history: send_order calls per conversation and handler
    lastStep,       \* history: the handler step taken last
    \* ---- SenderSpec
    forbidden_chat_ids, \* SafeSender._forbidden_chat_ids
    flushes,        \* flush_pending_forbidden_statuses coroutines in flight
    worksheet,      \* users worksheet: chat id -> status cell of its row
    status_cache,   \* UserService._status_cache, by the chat of the row
    recorded,       \* history: chat ids _handle_forbidden has recorded
    lastSend,       \* history: the SafeSender send operation completed last
    \* ---- RunSpec
    users_rows,     \* users worksheet: the data rows, in sheet order
    refusing,       \* Telegram: the chats that refuse delivery as blocked
    run,            \* the locals of the _broadcast_promo_impl call
    run_pending,    \* SafeSender._forbidden_chat_ids
    attempted,      \* history: the chats a delivery was attempted to
    run_result,     \* None, or Some(the PromoBroadcastResult returned)
    \* ---- PhoneSpec
    phoneRaw,       \* the text handed to normalize_ua_phone
    phoneResult,    \* None before the call, Some(what it returned) after it
    \* ---- DeliverySpec
    enteredText,    \* the city/branch message text of the buyer
    deliveryOut,    \* what the conversation has made of it so far
    \* ---- EntrySpec
    stepLog,        \* history: whether lastStep also names the steps of the answer handlers
    \* ---- RenderSpec
    renderIn,       \* the render of an order step: who renders, on which anchor, and what Telegram answers
    renderOut,      \* the Bot API calls the render has made, and how it ended
    \* ---- UsersSpec
    sheet_rows,     \* users worksheet: the data rows below the header, in sheet order
    row_index_cache,\* UserService._row_index_cache: None, or user id -> row index (0: absent)
    user_status_cache,\* UserService._status_cache: user id -> status ("": absent)
    last_row_index, \* UserService._last_row_index (0: None)
    ensure_calls,   \* the ensure_user_record coroutines
    \* ---- RetrySpec
    retry,          \* the locals of one _send_products_with_retry call and its attempts so far
    \* ---- CardsSpec
    cards,          \* the position of one _broadcast_promo_impl run in its batches
    inbox,          \* how often each card has reached the chat being sent to
    yielded,        \* how many results each loaded chat has produced
    cards_result,   \* the PromoBroadcastResult of the run, or None
    \* ---- StatusSpec
    status_cell,    \* the status cell of the user's row of the worksheet
    cached_status,  \* UserService._status_cache of the user
    user_lock,      \* the writer holding the per-user lock, 0 when free
    writers,        \* the calls that write the status of the user
    chat_pending,   \* the chat of the user is in _forbidden_chat_ids
    reach,          \* what has happened since the last completed ensure_user_record
    \* ---- CacheSpec
    products_sheet, \* the product rows fetch_rows would return now
    product_cache,  \* ProductService._cache
    last_updated,   \* ProductService._last_updated, None or a time
    update_lock,    \* the call holding _update_lock, 0 when free
    cache_calls,    \* the get_products and background update_cache calls
    cache_clock     \* the time datetime.now reads next

gateVars == <<gateSettings, gateNow, gateResult>>
promoVars == <<clock, sheet, tasks, lockHeld, lockWaiters, pending, dirStatus,
               tickSends, spawned, doneDays, lastReturn, writeFailed>>
orderVars == <<fsmState, fsmData, selected, customer, nextMessageId, keyboards,
               handlers, conversation, deliveries, crmCalls, lastStep>>
senderVars == <<forbidden_chat_ids, flushes, worksheet, status_cache, recorded,
                lastSend>>
\* The variables of the specifications added after the first three.
runVars == <<users_rows, refusing, run, run_pending, attempted, run_result>>
phoneVars == <<phoneRaw, phoneResult>>
deliveryVars == <<enteredText, deliveryOut>>
logVars == <<stepLog>>
renderVars == <<renderIn, renderOut>>
usersVars == <<sheet_rows, row_index_cache, user_status_cache, last_row_index, ensure_calls>>
retryVars == <<retry>>
cardsVars == <<cards, inbox, yielded, cards_result>>
statusVars == <<status_cell, cached_status, user_lock, writers, chat_pending, reach>>
cacheVars == <<products_sheet, product_cache, last_updated, update_lock, cache_calls, cache_clock>>
extraVars == <<senderVars, runVars, phoneVars, deliveryVars, logVars, renderVars, usersVars, retryVars, cardsVars, statusVars, cacheVars>>
\* For each later specification, the variables of all the others.
nonSenderVars == <<gateVars, promoVars, orderVars, runVars, phoneVars,
    deliveryVars,
    logVars,
    renderVars,
    usersVars,
    retryVars,
    cardsVars,
    statusVars,
    cacheVars>>
nonRunVars == <<gateVars, promoVars, orderVars, senderVars, phoneVars,
    deliveryVars,
    logVars,
    renderVars,
    usersVars,
    retryVars,
    cardsVars,
    statusVars,
    cacheVars>>
nonPhoneVars == <<gateVars, promoVars, orderVars, senderVars, runVars,
    deliveryVars,
    logVars,
    renderVars,
    usersVars,
    retryVars,
    cardsVars,
    statusVars,
    cacheVars>>
nonDeliveryVars == <<gateVars, promoVars, orderVars,
    senderVars, runVars, phoneVars,
    logVars,
    renderVars,
    usersVars,
    retryVars,
    cardsVars,
    statusVars,
    cacheVars>>
nonLogVars == <<gateVars, promoVars, orderVars,
    senderVars, runVars, phoneVars, deliveryVars,
    renderVars,
    usersVars,
    retryVars,
    cardsVars,
    statusVars,
    cacheVars>>
nonRenderVars == <<gateVars, promoVars, orderVars,
    senderVars, runVars, phoneVars, deliveryVars, logVars,
    usersVars,
    retryVars,
    cardsVars,
    statusVars,
    cacheVars>>
nonUsersVars == <<gateVars, promoVars, orderVars,
    senderVars, runVars, phoneVars, deliveryVars, logVars, renderVars,
    retryVars,
    cardsVars,
    statusVars,
    cacheVars>>
nonRetryVars == <<gateVars, promoVars, orderVars,
    senderVars, runVars, phoneVars, deliveryVars, logVars, renderVars, usersVars,
    cardsVars,
    statusVars,
    cacheVars>>
nonCardsVars == <<gateVars, promoVars, orderVars,
    senderVars, runVars, phoneVars, deliveryVars, logVars, renderVars, usersVars, retryVars,
    statusVars,
    cacheVars>>
nonStatusVars == <<gateVars, promoVars, orderVars,
    senderVars, runVars, phoneVars, deliveryVars, logVars, renderVars, usersVars, retryVars, cardsVars,
    cacheVars>>
nonCacheVars == <<gateVars, promoVars, orderVars,
    senderVars, runVars, phoneVars, deliveryVars, logVars, renderVars, usersVars, retryVars, cardsVars, statusVars>>
vars == <<gateVars, promoVars, orderVars, extraVars>>

\* Optional values: None is the empty tuple, Some(x) the one-element tuple.
None == <<>>
Some(x) == <<x>>

-----------------------------------------------------------------------------
(***************************************************************************)
(* Time                                                                    *)
(***************************************************************************)
HoursPerDay == 24
\* Europe/Kyiv standard time is UTC+2.
KyivUtcOffset == 2

\* now.astimezone(Europe/Kyiv): the wall-clock hour count in Kyiv.
KyivLocal(now) == now + KyivUtcOffset
\* .date() of a Kyiv datetime: the day number.
KyivDate(now) == KyivLocal(now) \div HoursPerDay
\* datetime.combine(today, send_time, tzinfo=Kyiv) as a Kyiv wall-clock hour count.
CombineDateTime(day, send_time) == day * HoursPerDay + send_time

-----------------------------------------------------------------------------
(***************************************************************************)
(* PromoSettingsService.should_send_now                                    *)
(***************************************************************************)
\* A plausible slip: the same-day guard is left out.
should_send_now_no_same_day_guard(settings, now) ==
    LET today == KyivDate(now) IN
    IF ~settings.enabled THEN FALSE
    ELSE IF KyivLocal(now) < CombineDateTime(today, settings.send_time) THEN FALSE
    ELSE IF settings.last_sent_date = None THEN TRUE
    ELSE today >= settings.last_sent_date[1] + settings.interval_days

\* A plausible slip: the interval comparison is strict.
should_send_now_strict_interval(settings, now) ==
    LET today == KyivDate(now) IN
    IF ~settings.enabled THEN FALSE
    ELSE IF settings.last_sent_date # None /\ settings.last_sent_date[1] = today THEN FALSE
    ELSE IF KyivLocal(now) < CombineDateTime(today, settings.send_time) THEN FALSE
    ELSE IF settings.last_sent_date = None THEN TRUE
    ELSE today > settings.last_sent_date[1] + settings.interval_days

should_send_now(settings, now) ==
    LET today == KyivDate(now) IN
    IF ~settings.enabled THEN FALSE
    ELSE IF settings.last_sent_date # None /\ settings.last_sent_date[1] = today THEN FALSE
    ELSE IF KyivLocal(now) < CombineDateTime(today, settings.send_time) THEN FALSE
    ELSE IF settings.last_sent_date = None THEN TRUE
    ELSE today >= settings.last_sent_date[1] + settings.interval_days

-----------------------------------------------------------------------------
(***************************************************************************)
(* GateSpec: should_send_now applied to bounded inputs                     *)
(***************************************************************************)
MaxGateDay == 2
GateIntervals == -1 .. 3
GateSendTimes == {0, 9, 23}
GateDates == {None} \cup {Some(d) : d \in 0 .. MaxGateDay}
GateNows == 0 .. ((MaxGateDay + 1) * HoursPerDay - KyivUtcOffset - 1)

GateSettingsSet ==
    [enabled : BOOLEAN, interval_days : GateIntervals,
     send_time : GateSendTimes, last_sent_date : GateDates]

PromoIdleInit ==
    /\ clock = 0
    /\ sheet = [enabled |-> FALSE, interval |-> 0, send_time |-> 0, last_sent |-> None]
    /\ tasks = <<>>
    /\ lockHeld = FALSE
    /\ lockWaiters = <<>>
    /\ pending = {}
    /\ dirStatus = <<>>
    /\ tickSends = <<>>
    /\ spawned = 0
    /\ doneDays = {}
    /\ lastReturn = <<>>
    /\ writeFailed = FALSE

OrderIdleInit ==
    /\ fsmState = "None"
    /\ fsmData = <<>>
    /\ selected = None
    /\ customer = None
    /\ nextMessageId = 1
    /\ keyboards = <<>>
    /\ handlers = <<>>
    /\ conversation = 0
    /\ deliveries = 0
    /\ crmCalls = <<>>
    /\ lastStep = <<>>

SenderIdleInit ==
    /\ forbidden_chat_ids = {}
    /\ flushes = <<>>
    /\ worksheet = <<>>
    /\ status_cache = <<>>
    /\ recorded = {}
    /\ lastSend = <<>>

RunIdleInit ==
    /\ users_rows = <<>>
    /\ refusing = {}
    /\ run = <<>>
    /\ run_pending = {}
    /\ attempted = {}
    /\ run_result = None

PhoneIdleInit ==
    /\ phoneRaw = <<>>
    /\ phoneResult = None

DeliveryIdleInit ==
    /\ enteredText = <<>>
    /\ deliveryOut = <<>>

LogIdleInit ==
    /\ stepLog = FALSE

RenderIdleInit ==
    /\ renderIn = <<>>
    /\ renderOut = <<>>

UsersIdleInit ==
    /\ sheet_rows = <<>>
    /\ row_index_cache = <<>>
    /\ user_status_cache = <<>>
    /\ last_row_index = 0
    /\ ensure_calls = <<>>

RetryIdleInit ==
    /\ retry = <<>>

CardsIdleInit ==
    /\ cards = None
    /\ inbox = <<>>
    /\ yielded = <<>>
    /\ cards_result = None

StatusIdleInit ==
    /\ status_cell = ""
    /\ cached_status = ""
    /\ user_lock = 0
    /\ writers = <<>>
    /\ chat_pending = FALSE
    /\ reach = None

CacheIdleInit ==
    /\ products_sheet = <<>>
    /\ product_cache = <<>>
    /\ last_updated = None
    /\ update_lock = 0
    /\ cache_calls = <<>>
    /\ cache_clock = 0

ExtraIdleInit == SenderIdleInit /\ RunIdleInit /\ PhoneIdleInit /\ DeliveryIdleInit /\ LogIdleInit /\ RenderIdleInit /\ UsersIdleInit /\ RetryIdleInit /\ CardsIdleInit /\ StatusIdleInit /\ CacheIdleInit

GateIdleInit ==
    /\ gateSettings = [enabled |-> FALSE, interval_days |-> 1, send_time |-> 0,
                       last_sent_date |-> None]
    /\ gateNow = 0
    /\ gateResult = None

GateInit ==
    /\ gateSettings \in GateSettingsSet
    /\ gateNow \in GateNows
    /\ gateResult = None
    /\ PromoIdleInit
    /\ OrderIdleInit
    /\ ExtraIdleInit

GateCall ==
    /\ gateResult = None
    /\ gateResult' = Some(should_send_now(gateSettings, gateNow))
    /\ UNCHANGED <<gateSettings, gateNow, promoVars, orderVars, extraVars>>

GateNext == GateCall

GateSpec == GateInit /\ [][GateNext]_vars

\* The rule list of the specification, in its stated order.
GateRuleList(settings, now) ==
    LET today == KyivDate(now) IN
    IF ~settings.enabled THEN FALSE
    ELSE IF KyivLocal(now) < CombineDateTime(today, settings.send_time) THEN FALSE
    ELSE IF settings.last_sent_date = None THEN TRUE
    ELSE IF settings.last_sent_date[1] = today THEN FALSE
    ELSE today >= settings.last_sent_date[1] + settings.interval_days

\* C5: should_send_now returns false whenever last_sent_date is the Kyiv date
\* of now, for every interval_days (0 and negative included), send_time and hour.
C5_SameDayNeverSends ==
    (gateResult # None /\ gateSettings.last_sent_date = Some(KyivDate(gateNow)))
        => gateResult = Some(FALSE)

C5_Witness ==
    /\ gateResult = Some(FALSE)
    /\ gateSettings.enabled
    /\ gateSettings.interval_days = 0
    /\ gateSettings.last_sent_date = Some(KyivDate(gateNow))
    /\ KyivLocal(gateNow) >= CombineDateTime(KyivDate(gateNow), gateSettings.send_time)

\* C6: should_send_now returns what the specified rule list returns, for every
\* enabled flag, interval, send time, last sent date and now.
C6_MatchesRuleList ==
    gateResult # None => gateResult = Some(GateRuleList(gateSettings, gateNow))

C6_Witness ==
    /\ gateResult = Some(TRUE)
    /\ gateSettings.last_sent_date # None
    /\ KyivDate(gateNow) = gateSettings.last_sent_date[1] + gateSettings.interval_days

-----------------------------------------------------------------------------
(***************************************************************************)
(* PromoSpec: promo_tick, send_promo and broadcast_promo as tasks of one   *)
(* asyncio event loop.  A task yields only at an await that suspends; the  *)
(* code between two such awaits is one action.                             *)
(***************************************************************************)
TaskIds == {1, 2}
Chats == {101}
\* The promo products of the products worksheet, when it has any.
Products == {"p1", "p2"}
\* The instants at which the model observes the wall clock (UTC hours):
\* 13:00 Kyiv on day 0 and 13:00 Kyiv on day 1.
ClockPoints == {11, 35}
PromoDays == {KyivDate(p) : p \in ClockPoints}
SheetSendTimes == {12}
\* Interval cell of the sheet: None is text that is not all digits.
SheetIntervalCells == {Some(0)}
MaxSpawns == 2

max_parallel_sends == 20
max_attempts == 3
flush_max_updates == 30

ImplPcs == {"load_products", "load_chats", "batch", "flush", "flushing"}
Outcomes == {"success", "forbidden", "temporary_error", "permanent_error"}

NoResult ==
    [status |-> "", chats |-> 0, products |-> 0, success |-> 0, forbidden |-> 0,
     temporary_errors |-> 0, permanent_errors |-> 0]

\* PromoBroadcastResult(status, chats, products) with the counters defaulted to 0.
PromoBroadcastResult(status, chats, products) ==
    [status |-> status, chats |-> chats, products |-> products, success |-> 0,
     forbidden |-> 0, temporary_errors |-> 0, permanent_errors |-> 0]

\* A task slot with no coroutine in it; the locals of a coroutine start so.
\* late, contended, didSend and didFlush are history: the tick started on a
\* day in doneDays; the call found the lock held; it has sent; it has flushed.
IdleTask ==
    [kind |-> "idle", sender |-> "safe", pc |-> "idle", now |-> 0,
     late |-> FALSE, contended |-> FALSE, products |-> 0,
     chat_ids |-> <<>>, batch_no |-> 0, attempt |-> [c \in Chats |-> 0],
     outcome |-> [c \in Chats |-> ""], to_process |-> <<>>, leftovers |-> <<>>,
     didSend |-> FALSE, didFlush |-> FALSE]

NoReturn ==
    [kind |-> "", result |-> NoResult, raised |-> FALSE, contended |-> FALSE,
     didSend |-> FALSE, didFlush |-> FALSE]

\* A set of chat ids as a list, in increasing order (the order get_all_values
\* returns the rows in, and an order list(set) can produce).
RECURSIVE SetToSeq(_)
SetToSeq(S) ==
    IF S = {} THEN <<>>
    ELSE LET m == CHOOSE x \in S : \A y \in S : x <= y
         IN <<m>> \o SetToSeq(S \ {m})

Range(seq) == {seq[i] : i \in 1 .. Len(seq)}
Min(a, b) == IF a < b THEN a ELSE b
Max(a, b) == IF a > b THEN a ELSE b

\* _iter_chunks(items, chunk_size): the chunk number n (from 1).
Chunk(items, chunk_size, n) ==
    SubSeq(items, (n - 1) * chunk_size + 1, Min(Len(items), n * chunk_size))
NumChunks(items, chunk_size) == (Len(items) + chunk_size - 1) \div chunk_size

\* PromoSettingsService.get_settings: the sheet row parsed into PromoSettings.
get_settings(row) ==
    [enabled |-> row.enabled,
     interval_days |-> Max(1, IF row.interval = None THEN 0 ELSE row.interval[1]),
     send_time |-> row.send_time,
     last_sent_date |-> row.last_sent]

PromoInit ==
    /\ clock = CHOOSE p \in ClockPoints : \A q \in ClockPoints : p <= q
    /\ sheet \in [enabled : {TRUE}, interval : SheetIntervalCells,
                  send_time : SheetSendTimes, last_sent : {None}]
    /\ tasks = [t \in TaskIds |-> IdleTask]
    /\ lockHeld = FALSE
    /\ lockWaiters = <<>>
    /\ pending = {}
    /\ dirStatus = [c \in Chats |-> "active"]
    /\ tickSends = [c \in Chats |-> [d \in PromoDays |-> 0]]
    /\ spawned = 0
    /\ doneDays = {}
    /\ lastReturn = NoReturn
    /\ writeFailed = FALSE
    /\ GateIdleInit
    /\ OrderIdleInit
    /\ ExtraIdleInit

SetTask(t, rec) == tasks' = [tasks EXCEPT ![t] = rec]

\* Time passes.
Advance ==
    /\ \E p \in ClockPoints : p > clock /\ clock' = p
    /\ UNCHANGED <<extraVars, orderVars, gateVars, sheet, tasks, lockHeld, lockWaiters, pending, dirStatus,
                   tickSends, spawned, doneDays, lastReturn, writeFailed>>

Spawn(t, kind, sender, pc) ==
    /\ tasks[t].pc = "idle"
    /\ \A u \in TaskIds : u < t => tasks[u].pc # "idle"   \* slots are taken in order
    /\ spawned < MaxSpawns
    /\ spawned' = spawned + 1
    /\ SetTask(t, [IdleTask EXCEPT !.kind = kind, !.sender = sender, !.pc = pc,
                                   !.now = clock,
                                   !.late = (KyivDate(clock) \in doneDays)])
    /\ UNCHANGED <<extraVars, orderVars, gateVars, clock, sheet, lockHeld, lockWaiters, pending, dirStatus,
                   tickSends, doneDays, lastReturn, writeFailed>>

\* main.py: the interval job calls promo_tick(bot, ...): the aiogram Bot is
\* passed where promo_tick expects the SafeSender.  APScheduler's default
\* max_instances=1 skips a run while the previous run of the job is going on.
SchedulerJob(t) ==
    /\ \A u \in TaskIds : ~(tasks[u].kind = "tick" /\ tasks[u].sender = "bot")
    /\ Spawn(t, "tick", "bot", "get_settings")

\* promo_tick called with a SafeSender, as its signature declares.
PromoTickCall(t) ==
    /\ tasks[t].kind = "idle"
    /\ Spawn(t, "tick", "safe", "get_settings")

\* admin.py send_promo: /sendpromo calls broadcast_promo with the SafeSender.
SendPromo(t) ==
    /\ tasks[t].kind = "idle"
    /\ Spawn(t, "manual", "safe", "acquire")

\* promo_tick: await get_settings(), then should_send_now; when due the task
\* goes on into broadcast_promo without suspending in between.  A failed read
\* and a gate that says no both end the tick.
TickGetSettings(t, ok) ==
    /\ tasks[t].pc = "get_settings"
    /\ SetTask(t, IF ok /\ should_send_now(get_settings(sheet), tasks[t].now)
                  THEN [tasks[t] EXCEPT !.pc = "acquire"]
                  ELSE IdleTask)
    /\ UNCHANGED <<extraVars, orderVars, gateVars, clock, sheet, lockHeld, lockWaiters, pending, dirStatus,
                   tickSends, spawned, doneDays, lastReturn, writeFailed>>

\* A guard that is only a best-effort flag: the lock is taken without looking.
LockAcquire_unchecked(t) ==
    /\ tasks[t].pc = "acquire"
    /\ lockHeld' = TRUE
    /\ SetTask(t, [tasks[t] EXCEPT !.pc = "load_products"])
    /\ UNCHANGED <<extraVars, orderVars, gateVars, clock, sheet, lockWaiters, pending, dirStatus,
                   tickSends, spawned, doneDays, lastReturn, writeFailed>>

\* broadcast_promo: wait_for(_broadcast_lock.acquire(), timeout=0.01).
\* Lock.acquire takes a free lock that nobody waits for at once, and otherwise
\* joins the waiters.
LockAcquire(t) ==
    /\ tasks[t].pc = "acquire"
    /\ IF ~lockHeld /\ lockWaiters = <<>>
       THEN /\ lockHeld' = TRUE
            /\ lockWaiters' = lockWaiters
            /\ SetTask(t, [tasks[t] EXCEPT !.pc = "load_products"])
       ELSE /\ lockHeld' = lockHeld
            /\ lockWaiters' = Append(lockWaiters, t)
            /\ SetTask(t, [tasks[t] EXCEPT !.pc = "waiting", !.contended = lockHeld])
    /\ UNCHANGED <<extraVars, orderVars, gateVars, clock, sheet, pending, dirStatus,
                   tickSends, spawned, doneDays, lastReturn, writeFailed>>

\* How a broadcast_promo call ended, for the record.
Returned(t, result, raised) ==
    [kind |-> tasks[t].kind, result |-> result, raised |-> raised,
     contended |-> tasks[t].contended,
     didSend |-> tasks[t].didSend, didFlush |-> tasks[t].didFlush]

\* The 0.01 s pass with the lock not handed over: wait_for cancels the acquire,
\* broadcast_promo returns the busy result, and the caller ends with it
\* (promo_tick returns; send_promo answers the admin).
LockTimeout(t) ==
    /\ tasks[t].pc = "waiting"
    /\ lockWaiters' = SelectSeq(lockWaiters, LAMBDA u : u # t)
    /\ lastReturn' = Returned(t, PromoBroadcastResult("busy", 0, 0), FALSE)
    /\ SetTask(t, IdleTask)
    /\ UNCHANGED <<extraVars, orderVars, gateVars, clock, sheet, lockHeld, pending, dirStatus,
                   tickSends, spawned, doneDays, writeFailed>>

\* The holder released within the 0.01 s: release() woke the first waiter,
\* whose acquire() now takes the lock.
LockWake(t) ==
    /\ tasks[t].pc = "waiting"
    /\ ~lockHeld
    /\ lockWaiters # <<>> /\ Head(lockWaiters) = t
    /\ lockHeld' = TRUE
    /\ lockWaiters' = Tail(lockWaiters)
    /\ SetTask(t, [tasks[t] EXCEPT !.pc = "load_products"])
    /\ UNCHANGED <<extraVars, orderVars, gateVars, clock, sheet, pending, dirStatus,
                   tickSends, spawned, doneDays, lastReturn, writeFailed>>

\* A guard released only by a call whose implementation returned.
Return_keeping_lock(t, result, raised) ==
    /\ lockHeld' = raised
    /\ lastReturn' = Returned(t, result, raised)
    /\ SetTask(t, IF tasks[t].kind = "tick" /\ ~raised
                     /\ result.status \in {"sent", "sent_with_failures"}
                  THEN [IdleTask EXCEPT !.kind = "tick", !.sender = tasks[t].sender,
                                        !.now = tasks[t].now, !.pc = "write_date"]
                  ELSE IdleTask)

\* A tick that records the date after every broadcast that was not busy.
Return_unless_busy(t, result, raised) ==
    /\ lockHeld' = FALSE
    /\ lastReturn' = Returned(t, result, raised)
    /\ SetTask(t, IF tasks[t].kind = "tick" /\ ~raised /\ result.status # "busy"
                  THEN [IdleTask EXCEPT !.kind = "tick", !.sender = tasks[t].sender,
                                        !.now = tasks[t].now, !.pc = "write_date"]
                  ELSE IdleTask)

\* _broadcast_promo_impl returns `result` or raises: broadcast_promo's finally
\* releases the lock, and the caller goes on to its next suspension.
\* promo_tick goes on to write the date only for a status of the sent family;
\* otherwise, and after an exception, the caller is over.
Return(t, result, raised) ==
    /\ lockHeld' = FALSE
    /\ lastReturn' = Returned(t, result, raised)
    /\ SetTask(t, IF tasks[t].kind = "tick" /\ ~raised
                     /\ result.status \in {"sent", "sent_with_failures"}
                  THEN [IdleTask EXCEPT !.kind = "tick", !.sender = tasks[t].sender,
                                        !.now = tasks[t].now, !.pc = "write_date"]
                  ELSE IdleTask)

\* _broadcast_promo_impl: products = await product_service.get_products().
LoadProducts(t) ==
    /\ tasks[t].pc = "load_products"
    /\ \/ Return(t, PromoBroadcastResult("error", 0, 0), FALSE)
       \/ Return(t, PromoBroadcastResult("no_products", 0, 0), FALSE)
       \/ /\ SetTask(t, [tasks[t] EXCEPT !.pc = "load_chats",
                                         !.products = Cardinality(Products)])
          /\ UNCHANGED <<lockHeld, lastReturn>>
    /\ UNCHANGED <<extraVars, orderVars, gateVars, clock, sheet, lockWaiters, pending, dirStatus,
                   tickSends, spawned, doneDays, writeFailed>>

\* UserService.get_chat_ids: the chat ids of the rows whose status is not left.
get_chat_ids == SetToSeq({c \in Chats : dirStatus[c] # "left"})

\* _broadcast_promo_impl: chat_ids = await user_service.get_chat_ids().
LoadChats(t) ==
    /\ tasks[t].pc = "load_chats"
    /\ \/ Return(t, PromoBroadcastResult("error", 0, tasks[t].products), FALSE)
       \/ /\ get_chat_ids = <<>>
          /\ Return(t, PromoBroadcastResult("no_chats", 0, tasks[t].products), FALSE)
       \/ /\ get_chat_ids # <<>>
          /\ SetTask(t, [tasks[t] EXCEPT !.pc = "batch", !.chat_ids = get_chat_ids,
                                         !.batch_no = 1])
          /\ UNCHANGED <<lockHeld, lastReturn>>
    /\ UNCHANGED <<extraVars, orderVars, gateVars, clock, sheet, lockWaiters, pending, dirStatus,
                   tickSends, spawned, doneDays, writeFailed>>

CurrentBatch(t) == Chunk(tasks[t].chat_ids, max_parallel_sends, tasks[t].batch_no)

\* What one attempt of _send_products_to_chat meets: every card accepted, the
\* chat refusing as blocked, a retryable transport error, or another error.
Transport == {"ok", "blocked", "retryable", "other"}

\* _send_products_with_retry, one turn of its loop for one chat of the batch
\* (the chats of a batch run concurrently under asyncio.gather).
\* Through a SafeSender a blocked chat is queued as pending and the turn
\* returns "forbidden"; through the bare Bot the refusal is an exception that
\* is not retryable.
SendAttempt(t, c, ev) ==
    /\ tasks[t].pc = "batch"
    /\ c \in Range(CurrentBatch(t))
    /\ tasks[t].outcome[c] = ""
    /\ LET attempt == tasks[t].attempt[c] + 1
           safe == tasks[t].sender = "safe"
           out == CASE ev = "ok" -> "success"
                    [] ev = "blocked" -> IF safe THEN "forbidden" ELSE "permanent_error"
                    [] ev = "retryable" ->
                          IF attempt < max_attempts THEN "" ELSE "temporary_error"
                    [] OTHER -> "permanent_error"
       IN /\ SetTask(t, [tasks[t] EXCEPT !.attempt[c] = attempt, !.outcome[c] = out,
                                         !.didSend = TRUE])
          /\ pending' = IF ev = "blocked" /\ safe THEN pending \cup {c} ELSE pending
          /\ tickSends' =
                IF ev = "ok" /\ tasks[t].kind = "tick" /\ safe
                THEN [tickSends EXCEPT ![c][KyivDate(tasks[t].now)] = @ + 1]
                ELSE tickSends
    /\ UNCHANGED <<extraVars, orderVars, gateVars, clock, sheet, lockHeld, lockWaiters, dirStatus,
                   spawned, doneDays, lastReturn, writeFailed>>

Count(t, o) == Cardinality({c \in Range(tasks[t].chat_ids) : tasks[t].outcome[c] = o})

\* The gather of a batch is complete: the counters take its results and, after
\* the pause, the loop goes to the next batch or on to the flush.
BatchDone(t) ==
    /\ tasks[t].pc = "batch"
    /\ \A c \in Range(CurrentBatch(t)) : tasks[t].outcome[c] # ""
    /\ SetTask(t, IF tasks[t].batch_no < NumChunks(tasks[t].chat_ids, max_parallel_sends)
                  THEN [tasks[t] EXCEPT !.batch_no = @ + 1]
                  ELSE [tasks[t] EXCEPT !.pc = "flush"])
    /\ UNCHANGED <<extraVars, orderVars, gateVars, clock, sheet, lockHeld, lockWaiters, pending, dirStatus,
                   tickSends, spawned, doneDays, lastReturn, writeFailed>>

\* The result _broadcast_promo_impl returns after the flush.
Summary(t) ==
    LET temporary_errors == Count(t, "temporary_error")
        permanent_errors == Count(t, "permanent_error")
    IN [status |-> IF temporary_errors > 0 \/ permanent_errors > 0
                   THEN "sent_with_failures" ELSE "sent",
        chats |-> Len(tasks[t].chat_ids),
        products |-> tasks[t].products,
        success |-> Count(t, "success"),
        forbidden |-> Count(t, "forbidden"),
        temporary_errors |-> temporary_errors,
        permanent_errors |-> permanent_errors]

\* A scheduler tick has attempted every chat and ends on the day it started.
AttemptedDays(t) ==
    IF tasks[t].kind = "tick" /\ tasks[t].sender = "bot"
       /\ KyivDate(clock) = KyivDate(tasks[t].now)
    THEN doneDays \cup {KyivDate(clock)} ELSE doneDays

\* await safe_sender.flush_pending_forbidden_statuses(max_updates=30, ...):
\* the pending set is taken and cleared.  Nothing pending: the flush returns 0
\* and the implementation returns its summary.  The aiogram Bot has no such
\* method: the call raises AttributeError, which leaves broadcast_promo
\* through its finally and then leaves the caller.
FlushStart(t) ==
    /\ tasks[t].pc = "flush"
    /\ IF tasks[t].sender = "bot"
       THEN /\ Return(t, NoResult, TRUE)
            /\ pending' = pending
            /\ doneDays' = AttemptedDays(t)
       ELSE LET pending_chat_ids == SetToSeq(pending)
                updates == Max(1, flush_max_updates)
            IN /\ pending' = {}
               /\ IF pending_chat_ids = <<>>
                  THEN /\ Return(t, Summary(t), FALSE)
                       /\ doneDays' = AttemptedDays(t)
                  ELSE /\ SetTask(t, [tasks[t] EXCEPT
                              !.pc = "flushing", !.didFlush = TRUE,
                              !.to_process = SubSeq(pending_chat_ids, 1,
                                                Min(updates, Len(pending_chat_ids))),
                              !.leftovers = SubSeq(pending_chat_ids, updates + 1,
                                                Len(pending_chat_ids))])
                       /\ UNCHANGED <<lockHeld, lastReturn, doneDays>>
    /\ UNCHANGED <<extraVars, orderVars, gateVars, clock, sheet, lockWaiters, dirStatus,
                   tickSends, spawned, writeFailed>>

\* One turn of the flush loop: update_status_by_chat_id(chat_id, False) under
\* its 5 s timeout sets the row's status to left, or fails or times out and
\* the chat id joins the leftovers.
FlushOne(t, ok) ==
    /\ tasks[t].pc = "flushing"
    /\ tasks[t].to_process # <<>>
    /\ LET chat_id == Head(tasks[t].to_process) IN
       /\ dirStatus' = IF ok THEN [dirStatus EXCEPT ![chat_id] = "left"] ELSE dirStatus
       /\ SetTask(t, [tasks[t] EXCEPT
              !.to_process = Tail(@),
              !.leftovers = IF ok THEN @ ELSE Append(@, chat_id)])
    /\ UNCHANGED <<extraVars, orderVars, gateVars, clock, sheet, lockHeld, lockWaiters, pending,
                   tickSends, spawned, doneDays, lastReturn, writeFailed>>

\* The flush loop is over: the leftovers go back to the pending set, the
\* implementation returns its summary and broadcast_promo releases the lock.
FlushEnd(t) ==
    /\ tasks[t].pc = "flushing"
    /\ tasks[t].to_process = <<>>
    /\ pending' = pending \cup Range(tasks[t].leftovers)
    /\ Return(t, Summary(t), FALSE)
    /\ doneDays' = AttemptedDays(t)
    /\ UNCHANGED <<extraVars, orderVars, gateVars, clock, sheet, lockWaiters, dirStatus,
                   tickSends, spawned, writeFailed>>

\* promo_tick: await update_last_sent_date(now.date()); a failure is logged.
\* Either way promo_tick is over.
WriteDate(t, ok) ==
    /\ tasks[t].pc = "write_date"
    /\ sheet' = IF ok THEN [sheet EXCEPT !.last_sent = Some(KyivDate(tasks[t].now))]
                ELSE sheet
    /\ writeFailed' = (writeFailed \/ ~ok)
    /\ SetTask(t, IdleTask)
    /\ UNCHANGED <<extraVars, orderVars, gateVars, clock, lockHeld, lockWaiters, pending, dirStatus,
                   tickSends, spawned, doneDays, lastReturn>>

PromoNext ==
    \/ Advance
    \/ \E t \in TaskIds :
          \/ SchedulerJob(t)
          \/ PromoTickCall(t)
          \/ SendPromo(t)
          \/ \E ok \in BOOLEAN : TickGetSettings(t, ok)
          \/ LockAcquire(t)
          \/ LockTimeout(t)
          \/ LockWake(t)
          \/ LoadProducts(t)
          \/ LoadChats(t)
          \/ \E c \in Chats, ev \in Transport : SendAttempt(t, c, ev)
          \/ BatchDone(t)
          \/ FlushStart(t)
          \/ \E ok \in BOOLEAN : FlushOne(t, ok)
          \/ FlushEnd(t)
          \/ \E ok \in BOOLEAN : WriteDate(t, ok)

PromoSpec == PromoInit /\ [][PromoNext]_vars

InImpl(t) == tasks[t].pc \in ImplPcs

\* C1: at most one execution of _broadcast_promo_impl is in progress at any
\* moment, for every interleaving of scheduler ticks, promo_tick calls and
\* /sendpromo commands.
C1_OneBroadcastAtATime ==
    Cardinality({t \in TaskIds : InImpl(t)}) <= 1

C1_Witness ==
    \E t, u \in TaskIds :
        /\ tasks[t].pc = "batch" /\ tasks[t].didSend
        /\ tasks[u].pc = "waiting" /\ tasks[u].contended

BusyResult == PromoBroadcastResult("busy", 0, 0)

\* C2: a broadcast_promo call made while another call holds the guard never
\* runs the implementation: it returns the busy result with all counts 0,
\* having sent nothing and flushed nothing.
C2_ContendedCallIsBusy ==
    /\ \A t \in TaskIds : tasks[t].contended => ~InImpl(t)
    /\ lastReturn.contended =>
          /\ lastReturn.result = BusyResult
          /\ ~lastReturn.raised /\ ~lastReturn.didSend /\ ~lastReturn.didFlush

\* C3: when promo_tick invocations (called with a SafeSender) overlap and no
\* date write has failed, no chat receives the broadcast of one due date twice.
C3_OncePerDueDate ==
    ~writeFailed => \A c \in Chats, d \in PromoDays : tickSends[c][d] <= 1

\* C4: in the running system, once a scheduler tick has attempted all chats on
\* a day, that day is recorded as the last sent date and no scheduler tick
\* started later on that day sends anything.
C4_RecordedAndNoResend ==
    /\ \A d \in doneDays : sheet.last_sent # None /\ sheet.last_sent[1] >= d
    /\ \A t \in TaskIds :
          (tasks[t].kind = "tick" /\ tasks[t].sender = "bot" /\ tasks[t].late)
              => ~tasks[t].didSend

\* The second half of C4 alone: a scheduler tick started after the day's
\* broadcast was attempted sends nothing.
C4_NoResend ==
    \A t \in TaskIds :
        (tasks[t].kind = "tick" /\ tasks[t].sender = "bot" /\ tasks[t].late)
            => ~tasks[t].didSend

\* No broadcast_promo call holds the guard or waits for it.
NoBroadcastRunning ==
    \A u \in TaskIds : ~InImpl(u) /\ tasks[u].pc # "waiting"

-----------------------------------------------------------------------------
(***************************************************************************)
(* OrderSpec: the checkout conversation of one chat (handlers/buy.py,      *)
(* handlers/order.py, handlers/start.py), dispatched through the routers   *)
(* in the order main.py includes them.  Texts typed by the buyer are       *)
(* sequences of one-character strings.  A handler whose awaits touch only  *)
(* Telegram is one step; submit_order and confirm_existing_order, which    *)
(* read the conversation data first and clear it last, are split at the    *)
(* awaits in between, so two of them can overlap.  The buyer presses the    *)
(* buttons that the messages of the chat show, types texts and shares      *)
(* contacts.                                                               *)
(***************************************************************************)
MaxMessageId == 2
MaxConversations == 2
MaxDeliveries == 2

Slots == {1, 2}
MessageIds == 1 .. MaxMessageId
Conversations == 1 .. MaxConversations

\* class OrderState(StatesGroup)
OrderState == {"waiting_for_name", "waiting_for_phone",
               "waiting_for_city_branch", "waiting_for_confirmation"}
NoState == "None"
AnyState == OrderState \cup {NoState}

DataKeys == {"message_id", "product_id", "product_name", "product_price",
             "formatted_price", "name", "phone", "city_branch", "contact_prompt_id"}
\* A key mapped to None is absent from the dict.
EmptyData == [k \in DataKeys |-> None]

\* ProductService.get_products(): the cached product list.
Catalog == << [id |-> "1", name |-> "Lamp", price |-> "100"] >>

\* f"{price} грн" (the currency word is transliterated)
format_price(price) == price \o " hrn"

Whitespace == {" "}
Digit == {"0", "1", "2", "3", "4", "5", "6", "7", "8", "9"}

RECURSIVE lstrip(_)
lstrip(s) == IF s # <<>> /\ Head(s) \in Whitespace THEN lstrip(Tail(s)) ELSE s
RECURSIVE rstrip(_)
rstrip(s) ==
    IF s # <<>> /\ s[Len(s)] \in Whitespace THEN rstrip(SubSeq(s, 1, Len(s) - 1)) ELSE s
\* str.strip()
strip(s) == rstrip(lstrip(s))

IsDigit(ch) == ch \in Digit
StartsWith(s, prefix) ==
    Len(s) >= Len(prefix) /\ SubSeq(s, 1, Len(prefix)) = prefix

\* A plausible slip: the 11-digit form gets the same prefix as the 12-digit one.
normalize_ua_phone_plus_only(raw) ==
    IF raw = <<>> THEN None
    ELSE LET digits == SelectSeq(raw, IsDigit) IN
         IF StartsWith(digits, <<"3", "8", "0">>) /\ Len(digits) = 12
         THEN Some(<<"+">> \o digits)
         ELSE IF StartsWith(digits, <<"8", "0">>) /\ Len(digits) = 11
         THEN Some(<<"+">> \o digits)
         ELSE IF StartsWith(digits, <<"0">>) /\ Len(digits) = 10
         THEN Some(<<"+", "3", "8">> \o digits)
         ELSE None

\* utils.phone.normalize_ua_phone: Some("+380XXXXXXXXX") or None.
normalize_ua_phone(raw) ==
    IF raw = <<>> THEN None
    ELSE LET digits == SelectSeq(raw, IsDigit) IN
         IF StartsWith(digits, <<"3", "8", "0">>) /\ Len(digits) = 12
         THEN Some(<<"+">> \o digits)
         ELSE IF StartsWith(digits, <<"8", "0">>) /\ Len(digits) = 11
         THEN Some(<<"+", "3">> \o digits)
         ELSE IF StartsWith(digits, <<"0">>) /\ Len(digits) = 10
         THEN Some(<<"+", "3", "8">> \o digits)
         ELSE None

\* The digits of the text are a Ukrainian number in one of the three
\* accepted shapes.
IsUaPhone(text) ==
    LET digits == SelectSeq(text, IsDigit) IN
    \/ Len(digits) = 12 /\ SubSeq(digits, 1, 3) = <<"3", "8", "0">>
    \/ Len(digits) = 11 /\ SubSeq(digits, 1, 2) = <<"8", "0">>
    \/ Len(digits) = 10 /\ SubSeq(digits, 1, 1) = <<"0">>

\* submit_order, lines 433-440: the city/branch text split at the first comma.
SplitDelivery(city_branch) ==
    LET raw == strip(IF city_branch = None THEN <<>> ELSE city_branch[1])
        commas == {i \in 1 .. Len(raw) : raw[i] = ","}
    IN  IF commas = {}
        THEN [city |-> raw, post_office |-> <<>>]
        ELSE LET i == CHOOSE j \in commas : \A k \in commas : j <= k IN
             [city |-> strip(SubSeq(raw, 1, i - 1)),
              post_office |-> strip(SubSeq(raw, i + 1, Len(raw)))]

\* ", ".join(delivery_parts), the parts being the non-empty ones of city and
\* post_office.
delivery_text(city, post_office) ==
    IF city # <<>> /\ post_office # <<>> THEN city \o <<",", " ">> \o post_office
    ELSE IF city # <<>> THEN city
    ELSE post_office

\* f"Delivery: {delivery_text}"
delivery_comment(text) ==
    <<"D", "e", "l", "i", "v", "e", "r", "y", ":", " ">> \o text

\* submit_order, lines 460-469: what send_order is given of the buyer.
submitted_order(data, parts) ==
    [buyer_name |-> data.name[1],
     phone |-> data.phone[1],
     comment |-> delivery_comment(delivery_text(parts.city, parts.post_office))]

\* A plausible slip: the comment names the city only.
existing_order_city_only(stored) ==
    [buyer_name |-> stored.name,
     phone |-> stored.phone,
     comment |-> delivery_comment(strip(stored.city))]

\* confirm_existing_order, lines 573-593: what send_order is given of the
\* buyer, all of it from the stored customer row.
existing_order(stored) ==
    [buyer_name |-> stored.name,
     phone |-> stored.phone,
     comment |-> delivery_comment(delivery_text(strip(stored.city),
                                                strip(stored.post_office)))]

\* The text holds nothing but blanks.
IsBlank(text) == \A i \in 1 .. Len(text) : text[i] = " "

\* What the buyer can send.
NameTexts == { <<" ">>, <<" ", "A">> }
PhoneTexts == { <<"0", "5", "0", " ", "1", "2", "3", "4", "5", "6", "7">>,
                <<"1", "2">> }
ContactPhones == { <<"+", "3", "8", "0", "5", "0", "1", "2", "3", "4", "5", "6", "7">> }
CityTexts == { <<"K", ",", " ", "7">> }
BuyIds == {"1", "9"}

(***************************************************************************)
(* Dispatch: Dispatcher.feed_update offers the update to the routers in    *)
(* the order they were included, and within a router to its handlers in    *)
(* the order they were registered; the first whose filters pass runs.      *)
(***************************************************************************)
Callback(key) == [event |-> "callback_query", key |-> key]
Message(key) == [event |-> "message", key |-> key]

Handler(name, event, keys, states) ==
    [handler |-> name, event |-> event, keys |-> keys, states |-> states]

start_router ==
    << Handler("start_handler", "message", {"command_start"}, AnyState) >>

buy_router ==
    << Handler("buy_product_callback", "callback_query", {"buy:"}, AnyState),
       Handler("cancel_order_callback", "callback_query", {"cancel_order"}, AnyState) >>

order_router ==
    << Handler("confirm_order_callback", "callback_query", {"confirm_order"}, AnyState),
       Handler("name_handler", "message", {"text", "command_start"}, {"waiting_for_name"}),
       Handler("phone_contact_request", "callback_query", {"order:contact"}, AnyState),
       Handler("phone_contact_handler", "message", {"contact"}, {"waiting_for_phone"}),
       Handler("phone_text_handler", "message", {"text", "command_start"}, {"waiting_for_phone"}),
       Handler("city_branch_handler", "message", {"text", "command_start"},
               {"waiting_for_city_branch"}),
       Handler("back_name", "callback_query", {"order:back:name"}, AnyState),
       Handler("manual_phone", "callback_query", {"order:manual_phone"}, AnyState),
       Handler("back_phone", "callback_query", {"order:back:phone"}, AnyState),
       Handler("back_city", "callback_query", {"order:back:city_branch"}, AnyState),
       Handler("submit_order", "callback_query", {"order:submit"}, AnyState),
       Handler("cancel_order", "callback_query", {"cancel_order"}, OrderState),
       Handler("back_to_product_card", "callback_query", {"order:back:product"}, AnyState),
       Handler("confirm_existing_order", "callback_query", {"order:confirm_existing"}, AnyState),
       Handler("edit_existing_data", "callback_query", {"order:edit_existing"}, AnyState) >>

admin_router ==
    << Handler("set_orders_group", "message", {"command_setgroup"}, AnyState),
       Handler("send_promo", "message", {"command_sendpromo"}, AnyState),
       Handler("stats_handler", "message", {"command_stats"}, AnyState) >>

\* main.py: dp.include_router(start.router), buy.router, order.router, admin.router
Registered == start_router \o buy_router \o order_router \o admin_router

Accepts(h, update, state) ==
    h.event = update.event /\ update.key \in h.keys /\ state \in h.states

Route(update, state) ==
    LET hits == {i \in 1 .. Len(Registered) : Accepts(Registered[i], update, state)} IN
    IF hits = {} THEN "unhandled"
    ELSE Registered[CHOOSE i \in hits : \A j \in hits : i <= j].handler

(***************************************************************************)
(* Keyboards: the inline keyboard a message shows decides which callbacks  *)
(* the buyer can send from it.                                             *)
(***************************************************************************)
\* buy._build_confirmation_keyboard and the keyboards of order.py
Buttons(keyboard) ==
    CASE keyboard = "confirmation_keyboard" -> {"confirm_order", "cancel_order"}
      [] keyboard = "name_kb" -> {"order:back:product", "cancel_order"}
      [] keyboard = "phone_kb" -> {"order:contact", "order:manual_phone",
                                   "order:back:name", "cancel_order"}
      [] keyboard = "city_branch_kb" -> {"order:back:phone", "cancel_order"}
      [] keyboard = "confirm_kb" -> {"order:submit", "order:back:city_branch",
                                     "cancel_order"}
      [] keyboard = "confirm_existing_kb" -> {"order:confirm_existing",
                                              "order:edit_existing", "cancel_order"}
      [] OTHER -> {}

\* "unsent": no order card has the id yet; "none": the keyboard was removed;
\* "deleted": the message was deleted.
Pressed(message_id, key) ==
    message_id < nextMessageId /\ key \in Buttons(keyboards[message_id])

\* order.update_step: the anchor message named by the data is edited to show
\* keyboard; without a message_id nothing is edited, and a failed edit (the
\* message is gone) is logged and swallowed.
update_step(data, shown, keyboard) ==
    IF data.message_id = None THEN shown
    ELSE IF shown[data.message_id[1]] = "deleted" THEN shown
    ELSE [shown EXCEPT ![data.message_id[1]] = keyboard]

(***************************************************************************)
(* State                                                                   *)
(***************************************************************************)
IdleHandler ==
    [kind |-> "idle", pc |-> "idle", data |-> EmptyData, customer |-> None,
     message_id |-> 0, conv |-> 0, called |-> FALSE, order |-> None]

\* lastStep names the handlers whose result a property reads
\* (cancel_order_callback, cancel_order, confirm_order_callback, submit_order,
\* confirm_existing_order); a step of any other handler resets it to Other.
Step(handler, outcome) ==
    [handler |-> handler, outcome |-> outcome, stale |-> FALSE,
     attempted |-> FALSE, clean |-> FALSE, failure |-> "none",
     notified |-> FALSE, acked |-> FALSE]
Other == Step("other", "")
\* The steps of the answer and back handlers are named only where stepLog
\* asks for it.
Logged(step) == IF stepLog THEN step ELSE Other

ConfirmationHandlers == {"submit_order", "confirm_existing_order"}

OrderInit ==
    /\ fsmState = NoState
    /\ fsmData = EmptyData
    /\ selected = None
    /\ customer = None
    /\ nextMessageId = 1
    /\ keyboards = [m \in MessageIds |-> "unsent"]
    /\ handlers = [h \in Slots |-> IdleHandler]
    /\ conversation = 0
    /\ deliveries = 0
    /\ crmCalls = [c \in Conversations |-> [k \in ConfirmationHandlers |-> 0]]
    /\ lastStep = Other
    /\ GateIdleInit
    /\ PromoIdleInit
    /\ ExtraIdleInit

\* FSMContext.clear(): set_state(None) and set_data({})
Cleared == fsmState' = NoState /\ fsmData' = EmptyData
IsClean(state, data) == state = NoState /\ data = EmptyData

\* buy.get_selected_product
get_selected_product(message_id) ==
    IF selected # None /\ selected[1].message_id = message_id
    THEN Some(selected[1].product) ELSE None

HasId(pid, p) == p.id = pid
FirstWithId(products, pid) ==
    LET hits == {i \in 1 .. Len(products) : HasId(pid, products[i])} IN
    IF hits = {} THEN None
    ELSE Some(products[CHOOSE i \in hits : \A j \in hits : i <= j])

\* buy_product_callback, lines 156-167: the product with the id of the pressed
\* button, looked up in the remembered cards and then in the product service.
\* The cards are copies of products the service returned, so the lookup is
\* made in the product list.
FindProduct(pid) == FirstWithId(Catalog, pid)

(***************************************************************************)
(* Handlers that are one step                                              *)
(***************************************************************************)
\* buy.buy_product_callback, pressed on a product card; ok is FALSE when a
\* Telegram send raises.
buy_product_callback(pid, ok) ==
    /\ Route(Callback("buy:"), fsmState) = "buy_product_callback"
    /\ LET product == FindProduct(pid) IN
       IF product = None \/ ~ok
       THEN /\ UNCHANGED <<selected, nextMessageId, keyboards>>
       ELSE /\ nextMessageId <= MaxMessageId
            /\ selected' = Some([product |-> product[1], message_id |-> nextMessageId])
            /\ keyboards' = [keyboards EXCEPT ![nextMessageId] = "confirmation_keyboard"]
            /\ nextMessageId' = nextMessageId + 1
    /\ lastStep' = Other
    /\ UNCHANGED <<extraVars, gateVars, promoVars, fsmState, fsmData, customer,
                   handlers, conversation, deliveries, crmCalls>>

\* buy.cancel_order_callback: forgets the selection, deletes the message the
\* button was on and sends the product cards again.  It does not receive the
\* FSM context.
cancel_order_callback(message_id) ==
    /\ selected' = None
    /\ keyboards' = [keyboards EXCEPT ![message_id] = "deleted"]
    /\ UNCHANGED <<customer, nextMessageId, handlers, conversation, deliveries, crmCalls>>

\* order.cancel_order: state.clear(), then the buy handler.
cancel_order(message_id) ==
    /\ Cleared
    /\ cancel_order_callback(message_id)

\* A "cancel_order" callback, run by whichever handler the dispatcher picks.
CancelPressed(message_id) ==
    LET picked == Route(Callback("cancel_order"), fsmState) IN
    /\ Pressed(message_id, "cancel_order")
    /\ IF picked = "cancel_order"
       THEN cancel_order(message_id)
       ELSE /\ picked = "cancel_order_callback"
            /\ cancel_order_callback(message_id)
            /\ UNCHANGED <<fsmState, fsmData>>
    /\ lastStep' = Step(picked, "")
    /\ UNCHANGED <<extraVars, gateVars, promoVars>>

\* A plausible slip: update_data without the state.clear() before it.
confirm_order_data_without_clear(old, message_id, product) ==
    [old EXCEPT !.message_id = Some(message_id),
                !.product_id = Some(product.id),
                !.product_name = Some(product.name),
                !.product_price = Some(product.price),
                !.formatted_price = Some(format_price(product.price))]

\* confirm_order_callback, lines 218-225: the data after state.clear() and
\* state.update_data(...).
confirm_order_data(old, message_id, product) ==
    [EmptyData EXCEPT !.message_id = Some(message_id),
                      !.product_id = Some(product.id),
                      !.product_name = Some(product.name),
                      !.product_price = Some(product.price),
                      !.formatted_price = Some(format_price(product.price))]

HoldsStaleAnswers(data) ==
    /\ data.name # None /\ data.phone # None
    /\ data.city_branch # None /\ data.contact_prompt_id # None

\* order.confirm_order_callback pressed on message message_id
confirm_order_callback(message_id) ==
    /\ Route(Callback("confirm_order"), fsmState) = "confirm_order_callback"
    /\ Pressed(message_id, "confirm_order")
    /\ LET product == get_selected_product(message_id) IN
       IF product = None
       THEN /\ lastStep' = Other
            /\ UNCHANGED <<fsmState, fsmData, conversation, keyboards>>
       ELSE /\ conversation < MaxConversations
            /\ conversation' = conversation + 1
            /\ fsmData' = confirm_order_data(fsmData, message_id, product[1])
            /\ fsmState' = IF customer = None THEN "waiting_for_name" ELSE NoState
            /\ keyboards' = update_step(fsmData', keyboards,
                                        IF customer # None THEN "confirm_existing_kb"
                                                           ELSE "name_kb")
            /\ lastStep' = [Step("confirm_order_callback", "started")
                               EXCEPT !.stale = HoldsStaleAnswers(fsmData)]
    /\ UNCHANGED <<extraVars, gateVars, promoVars, selected, customer, nextMessageId,
                   handlers, deliveries, crmCalls>>

\* order.name_handler; deleted is FALSE when message.delete() raises.
\* A plausible slip: the handler without its emptiness check.
name_handler_keeping_blank(text, deleted) ==
    /\ Route(Message("text"), fsmState) = "name_handler"
    /\ LET name == strip(text) IN
       IF ~deleted
       THEN UNCHANGED <<fsmState, fsmData, keyboards>>
       ELSE /\ fsmData' = [fsmData EXCEPT !.name = Some(name)]
            /\ fsmState' = "waiting_for_phone"
            /\ keyboards' = update_step(fsmData', keyboards, "phone_kb")
    /\ lastStep' = Logged(Step("name_handler", IF IsBlank(text) THEN "blank text" ELSE "text"))
    /\ UNCHANGED <<extraVars, gateVars, promoVars, selected, customer, nextMessageId,
                   handlers, conversation, deliveries, crmCalls>>

\* order.name_handler; deleted is FALSE when message.delete() raises.
name_handler(text, deleted) ==
    /\ Route(Message("text"), fsmState) = "name_handler"
    /\ LET name == strip(text) IN
       IF name = <<>> \/ ~deleted
       THEN UNCHANGED <<fsmState, fsmData, keyboards>>
       ELSE /\ fsmData' = [fsmData EXCEPT !.name = Some(name)]
            /\ fsmState' = "waiting_for_phone"
            /\ keyboards' = update_step(fsmData', keyboards, "phone_kb")
    /\ lastStep' = Logged(Step("name_handler", IF IsBlank(text) THEN "blank text" ELSE "text"))
    /\ UNCHANGED <<extraVars, gateVars, promoVars, selected, customer, nextMessageId,
                   handlers, conversation, deliveries, crmCalls>>

\* The message id of a contact prompt.  The handlers only test it for
\* presence and delete the message, so every prompt carries the same id, one
\* that no order card has.
PromptMessageId == MaxMessageId + 1

\* A plausible slip: the handler also re-anchors the conversation on the
\* message whose button was pressed.
phone_contact_request_reanchoring(message_id, ok) ==
    /\ Route(Callback("order:contact"), fsmState) = "phone_contact_request"
    /\ Pressed(message_id, "order:contact")
    /\ fsmData' = IF ok THEN [fsmData EXCEPT !.contact_prompt_id = Some(PromptMessageId),
                                             !.message_id = Some(message_id)]
                  ELSE fsmData
    /\ lastStep' = Other
    /\ UNCHANGED <<extraVars, gateVars, promoVars, fsmState, selected, customer, nextMessageId,
                   keyboards, handlers, conversation, deliveries, crmCalls>>

\* order.phone_contact_request; ok is FALSE when sending the prompt raises.
phone_contact_request(message_id, ok) ==
    /\ Route(Callback("order:contact"), fsmState) = "phone_contact_request"
    /\ Pressed(message_id, "order:contact")
    /\ fsmData' = IF ok THEN [fsmData EXCEPT !.contact_prompt_id = Some(PromptMessageId)]
                  ELSE fsmData
    /\ lastStep' = Other
    /\ UNCHANGED <<extraVars, gateVars, promoVars, fsmState, selected, customer, nextMessageId,
                   keyboards, handlers, conversation, deliveries, crmCalls>>

\* order.phone_contact_handler: the contact's phone number is stored as
\* received and the prompt message is deleted (a failure is swallowed).
phone_contact_handler(phone_number, deleted) ==
    /\ Route(Message("contact"), fsmState) = "phone_contact_handler"
    /\ IF ~deleted
       THEN UNCHANGED <<fsmState, fsmData, keyboards>>
       ELSE /\ fsmData' = [fsmData EXCEPT !.phone = Some(phone_number)]
            /\ fsmState' = "waiting_for_city_branch"
            /\ keyboards' = update_step(fsmData', keyboards, "city_branch_kb")
    /\ lastStep' = Logged(Step("phone_contact_handler", "contact"))
    /\ UNCHANGED <<extraVars, gateVars, promoVars, selected, customer, nextMessageId,
                   handlers, conversation, deliveries, crmCalls>>

\* A plausible slip: the handler goes on to the city step after the error
\* message as well.
phone_text_handler_advancing(text, deleted) ==
    /\ Route(Message("text"), fsmState) = "phone_text_handler"
    /\ LET phone == normalize_ua_phone(strip(text)) IN
       IF ~deleted
       THEN UNCHANGED <<fsmState, fsmData, keyboards>>
       ELSE /\ fsmData' = IF phone = None THEN fsmData
                          ELSE [fsmData EXCEPT !.phone = phone]
            /\ fsmState' = "waiting_for_city_branch"
            /\ keyboards' = update_step(fsmData', keyboards, "city_branch_kb")
    /\ lastStep' = Logged(Step("phone_text_handler",
                               IF IsUaPhone(strip(text)) THEN "number"
                                                         ELSE "rejected number"))
    /\ UNCHANGED <<extraVars, gateVars, promoVars, selected, customer, nextMessageId,
                   handlers, conversation, deliveries, crmCalls>>

\* order.phone_text_handler: a rejected number re-renders the phone step.
phone_text_handler(text, deleted) ==
    /\ Route(Message("text"), fsmState) = "phone_text_handler"
    /\ LET phone == normalize_ua_phone(strip(text)) IN
       IF ~deleted
       THEN UNCHANGED <<fsmState, fsmData, keyboards>>
       ELSE IF phone = None
       THEN /\ keyboards' = update_step(fsmData, keyboards, "phone_kb")
            /\ UNCHANGED <<fsmState, fsmData>>
       ELSE /\ fsmData' = [fsmData EXCEPT !.phone = phone]
            /\ fsmState' = "waiting_for_city_branch"
            /\ keyboards' = update_step(fsmData', keyboards, "city_branch_kb")
    /\ lastStep' = Logged(Step("phone_text_handler",
                               IF IsUaPhone(strip(text)) THEN "number"
                                                         ELSE "rejected number"))
    /\ UNCHANGED <<extraVars, gateVars, promoVars, selected, customer, nextMessageId,
                   handlers, conversation, deliveries, crmCalls>>

\* order.city_branch_handler: the summary reads product_name, formatted_price,
\* name and phone from the data; a missing one is a KeyError raised after the
\* state was set and before update_step.
city_branch_handler(text, deleted) ==
    /\ Route(Message("text"), fsmState) = "city_branch_handler"
    /\ IF ~deleted
       THEN UNCHANGED <<fsmState, fsmData, keyboards>>
       ELSE /\ fsmData' = [fsmData EXCEPT !.city_branch = Some(strip(text))]
            /\ fsmState' = "waiting_for_confirmation"
            /\ keyboards' =
                  IF \E k \in {"product_name", "formatted_price", "name", "phone"} :
                        fsmData[k] = None
                  THEN keyboards
                  ELSE update_step(fsmData', keyboards, "confirm_kb")
    /\ lastStep' = Other
    /\ UNCHANGED <<extraVars, gateVars, promoVars, selected, customer, nextMessageId,
                   handlers, conversation, deliveries, crmCalls>>

\* back_name, back_phone, back_city and edit_existing_data: set_state and a
\* re-render of the anchor message; the data is left as it is.
back_name(message_id) ==
    /\ Route(Callback("order:back:name"), fsmState) = "back_name"
    /\ Pressed(message_id, "order:back:name")
    /\ fsmState' = "waiting_for_name"
    /\ keyboards' = update_step(fsmData, keyboards, "name_kb")
    /\ lastStep' = Logged(Step("back_name", "back"))
    /\ UNCHANGED <<extraVars, gateVars, promoVars, fsmData, selected, customer,
                   nextMessageId, handlers, conversation, deliveries, crmCalls>>

back_phone(message_id) ==
    /\ Route(Callback("order:back:phone"), fsmState) = "back_phone"
    /\ Pressed(message_id, "order:back:phone")
    /\ fsmState' = "waiting_for_phone"
    /\ keyboards' = update_step(fsmData, keyboards, "phone_kb")
    /\ lastStep' = Logged(Step("back_phone", "back"))
    /\ UNCHANGED <<extraVars, gateVars, promoVars, fsmData, selected, customer,
                   nextMessageId, handlers, conversation, deliveries, crmCalls>>

back_city(message_id) ==
    /\ Route(Callback("order:back:city_branch"), fsmState) = "back_city"
    /\ Pressed(message_id, "order:back:city_branch")
    /\ fsmState' = "waiting_for_city_branch"
    /\ keyboards' = update_step(fsmData, keyboards, "city_branch_kb")
    /\ lastStep' = Logged(Step("back_city", "back"))
    /\ UNCHANGED <<extraVars, gateVars, promoVars, fsmData, selected, customer,
                   nextMessageId, handlers, conversation, deliveries, crmCalls>>

edit_existing_data(message_id) ==
    /\ Route(Callback("order:edit_existing"), fsmState) = "edit_existing_data"
    /\ Pressed(message_id, "order:edit_existing")
    /\ fsmState' = "waiting_for_name"
    /\ keyboards' = update_step(fsmData, keyboards, "name_kb")
    /\ lastStep' = Other
    /\ UNCHANGED <<extraVars, gateVars, promoVars, fsmData, selected, customer,
                   nextMessageId, handlers, conversation, deliveries, crmCalls>>

\* order.back_to_product_card pressed on message pressed_id: the anchor message
\* shows the product card again; when both edits fail the handler raises, the
\* state already cleared.
back_to_product_card(pressed_id) ==
    /\ Route(Callback("order:back:product"), fsmState) = "back_to_product_card"
    /\ Pressed(pressed_id, "order:back:product")
    /\ LET message_id == IF fsmData.message_id # None
                         THEN fsmData.message_id[1] ELSE pressed_id
       IN  IF get_selected_product(message_id) = None
           THEN UNCHANGED <<fsmState, fsmData, keyboards>>
           ELSE /\ Cleared
                /\ keyboards' = IF keyboards[message_id] = "deleted" THEN keyboards
                                ELSE [keyboards EXCEPT ![message_id] =
                                         "confirmation_keyboard"]
    /\ lastStep' = Other
    /\ UNCHANGED <<extraVars, gateVars, promoVars, selected, customer, nextMessageId,
                   handlers, conversation, deliveries, crmCalls>>

(***************************************************************************)
(* submit_order and confirm_existing_order, split at their awaits          *)
(***************************************************************************)
\* The lowest free coroutine slot takes the next confirmation callback.
FreeSlot(h) ==
    /\ handlers[h].kind = "idle"
    /\ \A g \in Slots : g < h => handlers[g].kind # "idle"

EndHandler(h) == handlers' = [handlers EXCEPT ![h] = IdleHandler]

Called(kind, conv) ==
    crmCalls' = [crmCalls EXCEPT ![conv][kind] = @ + 1]

\* The awaits of submit_order from send_order on; each can raise.
SubmitFailures == {"none", "send_order", "settings_service.get",
                   "notify.send_message", "edit_reply_markup",
                   "message.answer", "send_after_order_promo", "callback.answer"}
\* The awaits of confirm_existing_order from send_order on; each can raise.
ConfirmExistingFailures == {"none", "send_order", "settings_service.get",
                            "notify.send_message", "edit_reply_markup",
                            "message.answer", "callback.answer"}
\* submit_order wraps send_order in try/except (lines 460-472), and
\* notify_orders_group wraps its bot.send_message (lines 198-201): what these
\* raise is logged and the handler goes on.
Swallowed(kind, failure) ==
    \/ failure = "notify.send_message"
    \/ kind = "submit_order" /\ failure = "send_order"
\* The keyboard of the pressed message is removed before the acknowledgement.
ReachesEdit(failure) == failure \notin {"send_order", "settings_service.get"}
\* The operations notice is sent after the setting is read.
ReachesNotice(failure) == failure \notin {"send_order", "settings_service.get"}
EditFails(failure, shown) == failure = "edit_reply_markup" \/ shown = "deleted"
\* state.clear() is the last statement before callback.answer().
ReachesClear(failure) == failure \in {"none", "callback.answer"}

\* The end of both handlers for the call of slot h: the notice to the
\* operations chat (its arguments read product_name and formatted_price),
\* edit_reply_markup on the pressed message, the acknowledgement, for
\* submit_order the after-order promo, and state.clear().
EndOfConfirmation(h, failure) ==
    LET d == handlers[h].data
        m == handlers[h].message_id
        raising == IF Swallowed(handlers[h].kind, failure) THEN "none" ELSE failure
        complete == d.product_name # None /\ d.formatted_price # None
        notifies == complete /\ ReachesNotice(raising) /\ failure # "notify.send_message"
        edits == complete /\ ReachesEdit(raising) /\ ~EditFails(raising, keyboards[m])
        acks == edits /\ raising # "message.answer"
        clears == edits /\ ReachesClear(raising)
        outcome == IF ~complete THEN "KeyError"
                   ELSE IF ~ReachesEdit(raising) THEN "failed before the removal"
                   ELSE IF ~edits \/ ~ReachesClear(raising) THEN "side effect failed"
                   ELSE IF raising = "none" THEN "returned"
                   ELSE "failed after the clear"
        \* the one await that failed in this run, swallowed or not
        failed == IF ~complete THEN "KeyError"
                  ELSE IF ReachesEdit(raising) /\ keyboards[m] = "deleted"
                  THEN "edit_reply_markup"
                  ELSE failure
    IN  /\ keyboards' = IF edits THEN [keyboards EXCEPT ![m] = "none"] ELSE keyboards
        /\ IF clears THEN Cleared ELSE UNCHANGED <<fsmState, fsmData>>
        /\ lastStep' = [Step(handlers[h].kind, outcome)
                           EXCEPT !.attempted = handlers[h].called,
                                  !.clean = IsClean(fsmState', fsmData'),
                                  !.failure = failed,
                                  !.notified = notifies,
                                  !.acked = acks]

\* submit_order, lines 430-449: get_data(), then the arguments of
\* save_or_update are read (KeyError when name or phone is missing) and the
\* coroutine is suspended in it.
submit_order_begin(h, message_id) ==
    /\ Route(Callback("order:submit"), fsmState) = "submit_order"
    /\ Pressed(message_id, "order:submit")
    /\ FreeSlot(h)
    /\ IF fsmData.name = None \/ fsmData.phone = None
       THEN /\ lastStep' = Other
            /\ UNCHANGED <<handlers, deliveries>>
       ELSE /\ deliveries < MaxDeliveries
            /\ deliveries' = deliveries + 1
            /\ handlers' = [handlers EXCEPT ![h] =
                   [IdleHandler EXCEPT !.kind = "submit_order", !.pc = "save_or_update",
                                       !.data = fsmData, !.message_id = message_id,
                                       !.conv = conversation]]
            /\ lastStep' = Other
    /\ UNCHANGED <<extraVars, gateVars, promoVars, fsmState, fsmData, selected, customer,
                   nextMessageId, keyboards, conversation, crmCalls>>

\* submit_order, lines 443-470: save_or_update returns (or raises, which ends
\* the handler) and send_order is called; a KeyError while its arguments are
\* built is swallowed with every other exception of the call.
submit_order_saved(h, ok) ==
    /\ handlers[h].kind = "submit_order" /\ handlers[h].pc = "save_or_update"
    /\ LET d == handlers[h].data
           parts == SplitDelivery(d.city_branch)
           called == d.product_id # None /\ d.product_price # None
       IN  IF ~ok
           THEN /\ EndHandler(h)
                /\ lastStep' = [Step("submit_order", "raised")
                                   EXCEPT !.failure = "save_or_update",
                                          !.clean = IsClean(fsmState, fsmData)]
                /\ UNCHANGED <<customer, crmCalls>>
           ELSE /\ customer' = Some([name |-> d.name[1], phone |-> d.phone[1],
                                     city |-> parts.city,
                                     post_office |-> parts.post_office])
                /\ IF called THEN Called("submit_order", handlers[h].conv)
                             ELSE UNCHANGED crmCalls
                /\ handlers' = [handlers EXCEPT ![h].pc = "send_order",
                                                ![h].called = called,
                                                ![h].order =
                                                    IF called
                                                    THEN Some(submitted_order(d, parts))
                                                    ELSE None]
                /\ lastStep' = Other
    /\ UNCHANGED <<extraVars, gateVars, promoVars, fsmState, fsmData, selected,
                   nextMessageId, keyboards, conversation, deliveries>>

\* submit_order, lines 471-491: send_order has returned or raised (swallowed);
\* the operations notice, the keyboard removal, the acknowledgement and the
\* after-order promo follow, and state.clear() comes after all of them.
submit_order_end(h, failure) ==
    /\ handlers[h].kind = "submit_order" /\ handlers[h].pc = "send_order"
    /\ EndOfConfirmation(h, failure)
    /\ EndHandler(h)
    /\ UNCHANGED <<extraVars, gateVars, promoVars, selected, customer, nextMessageId,
                   conversation, deliveries, crmCalls>>

\* confirm_existing_order, lines 566-567: get_data(), then the coroutine is
\* suspended in get_customer.
confirm_existing_order_begin(h, message_id) ==
    /\ Route(Callback("order:confirm_existing"), fsmState) = "confirm_existing_order"
    /\ Pressed(message_id, "order:confirm_existing")
    /\ FreeSlot(h)
    /\ deliveries < MaxDeliveries
    /\ deliveries' = deliveries + 1
    /\ handlers' = [handlers EXCEPT ![h] =
           [IdleHandler EXCEPT !.kind = "confirm_existing_order", !.pc = "get_customer",
                               !.data = fsmData, !.message_id = message_id,
                               !.conv = conversation]]
    /\ lastStep' = Other
    /\ UNCHANGED <<extraVars, gateVars, promoVars, fsmState, fsmData, selected, customer,
                   nextMessageId, keyboards, conversation, crmCalls>>

\* confirm_existing_order, lines 567-593: get_customer returns (or raises);
\* without a customer the handler ends, without a product id in the data the
\* KeyError ends it, otherwise send_order is called.
confirm_existing_order_lookup(h, ok) ==
    /\ handlers[h].kind = "confirm_existing_order" /\ handlers[h].pc = "get_customer"
    /\ LET d == handlers[h].data IN
       IF ~ok \/ customer = None \/ d.product_id = None \/ d.product_price = None
       THEN /\ EndHandler(h)
            /\ lastStep' = Step("confirm_existing_order",
                                IF ~ok THEN "raised"
                                ELSE IF customer = None THEN "no_customer"
                                ELSE "KeyError")
            /\ UNCHANGED crmCalls
       ELSE /\ Called("confirm_existing_order", handlers[h].conv)
            /\ handlers' = [handlers EXCEPT ![h].pc = "send_order",
                                            ![h].customer = customer,
                                            ![h].called = TRUE,
                                            ![h].order = Some(existing_order(customer[1]))]
            /\ lastStep' = Other
    /\ UNCHANGED <<extraVars, gateVars, promoVars, fsmState, fsmData, selected, customer,
                   nextMessageId, keyboards, conversation, deliveries>>

\* confirm_existing_order, lines 584-608: send_order returns or raises, then
\* the operations notice, the keyboard removal and the acknowledgement;
\* state.clear() comes after all of them.
confirm_existing_order_end(h, failure) ==
    /\ handlers[h].kind = "confirm_existing_order" /\ handlers[h].pc = "send_order"
    /\ EndOfConfirmation(h, failure)
    /\ EndHandler(h)
    /\ UNCHANGED <<extraVars, gateVars, promoVars, selected, customer, nextMessageId,
                   conversation, deliveries, crmCalls>>

OrderNext ==
    \/ \E pid \in BuyIds, ok \in BOOLEAN : buy_product_callback(pid, ok)
    \/ \E m \in MessageIds : CancelPressed(m)
    \/ \E m \in MessageIds : confirm_order_callback(m)
    \/ \E text \in NameTexts, deleted \in BOOLEAN : name_handler(text, deleted)
    \/ \E m \in MessageIds, ok \in BOOLEAN : phone_contact_request(m, ok)
    \/ \E phone \in ContactPhones, deleted \in BOOLEAN : phone_contact_handler(phone, deleted)
    \/ \E text \in PhoneTexts, deleted \in BOOLEAN : phone_text_handler(text, deleted)
    \/ \E text \in CityTexts, deleted \in BOOLEAN : city_branch_handler(text, deleted)
    \/ \E m \in MessageIds : back_name(m)
    \/ \E m \in MessageIds : back_phone(m)
    \/ \E m \in MessageIds : back_city(m)
    \/ \E m \in MessageIds : edit_existing_data(m)
    \/ \E m \in MessageIds : back_to_product_card(m)
    \/ \E h \in Slots, m \in MessageIds : submit_order_begin(h, m)
    \/ \E h \in Slots, ok \in BOOLEAN : submit_order_saved(h, ok)
    \/ \E h \in Slots, failure \in SubmitFailures : submit_order_end(h, failure)
    \/ \E h \in Slots, m \in MessageIds : confirm_existing_order_begin(h, m)
    \/ \E h \in Slots, ok \in BOOLEAN : confirm_existing_order_lookup(h, ok)
    \/ \E h \in Slots, failure \in ConfirmExistingFailures :
          confirm_existing_order_end(h, failure)

OrderSpec == OrderInit /\ [][OrderNext]_vars

\* C7: for one conversation, each confirmation handler calls
\* crm_client.send_order at most once, however the deliveries of its callback
\* interleave.
C7_OneCrmOrderPerConfirmation ==
    \A c \in Conversations, k \in ConfirmationHandlers : crmCalls[c][k] <= 1

\* C8: after a "cancel_order" callback has been handled, whichever handler the
\* dispatcher picked, the chat has no FSM state and no conversation data.
C8_CancelClearsConversation ==
    lastStep.handler \in {"cancel_order", "cancel_order_callback"}
        => IsClean(fsmState, fsmData)

\* How a confirmation handler ends once send_order has returned: normally, or
\* with the keyboard removal, the acknowledgement or the after-order promo
\* raising.
LaterSideEffects == {"returned", "side effect failed"}

\* C9: when submit_order or confirm_existing_order ends after having called
\* send_order, the chat has no FSM state and no conversation data, whether the
\* handler returned or a later side effect raised.
C9_SubmittedLeavesNoState ==
    (/\ lastStep.handler \in ConfirmationHandlers
     /\ lastStep.attempted
     /\ lastStep.outcome \in LaterSideEffects)
        => lastStep.clean

\* C22: when send_order raises in submit_order or in confirm_existing_order
\* and nothing else fails, the buyer is sent the acknowledgement and the chat
\* is left with no FSM state and no conversation data.
C22_CrmFailureStillAcknowledged ==
    (/\ lastStep.handler \in ConfirmationHandlers
     /\ lastStep.failure = "send_order")
        => lastStep.acked /\ lastStep.clean

\* C24: when in submit_order the customer upsert raises, the CRM order is
\* still sent, the operations chat notified and the buyer acknowledged; when
\* reading the operations-chat setting or sending the notice raises, the
\* buyer is still acknowledged and the conversation cleared.
C24_SubmitSideEffectsIndependent ==
    lastStep.handler = "submit_order" =>
        /\ lastStep.failure = "save_or_update"
              => lastStep.attempted /\ lastStep.notified /\ lastStep.acked
        /\ lastStep.failure \in {"settings_service.get", "notify.send_message"}
              => lastStep.acked /\ lastStep.clean

ConfirmOrderStarted ==
    lastStep.handler = "confirm_order_callback" /\ lastStep.outcome = "started"

\* C10: right after confirm_order_callback has run for a found selected
\* product, the data holds the anchor message id and the product's id, name,
\* price and formatted price, and none of name, phone, city_branch and
\* contact_prompt_id.
C10_FreshConversationData ==
    ConfirmOrderStarted =>
        /\ selected # None
        /\ fsmData.message_id = Some(selected[1].message_id)
        /\ fsmData.product_id = Some(selected[1].product.id)
        /\ fsmData.product_name = Some(selected[1].product.name)
        /\ fsmData.product_price = Some(selected[1].product.price)
        /\ fsmData.formatted_price = Some(selected[1].product.price \o " hrn")
        /\ \A k \in {"name", "phone", "city_branch", "contact_prompt_id"} :
              fsmData[k] = None

C10_Witness ==
    /\ ConfirmOrderStarted
    /\ lastStep.stale
    /\ fsmData.name = None /\ fsmData.product_id # None

StepRank(state) ==
    CASE state = NoState -> 0
      [] state = "waiting_for_name" -> 1
      [] state = "waiting_for_phone" -> 2
      [] state = "waiting_for_city_branch" -> 3
      [] state = "waiting_for_confirmation" -> 4

\* The answer whose presence in the data shows that a step was passed.
AnswerOf(state) ==
    CASE state = "waiting_for_name" -> "name"
      [] state = "waiting_for_phone" -> "phone"
      [] state = "waiting_for_city_branch" -> "city_branch"

\* One step of the conversation along an edge of the checkout machine: no
\* change, cleared (aborted or submitted), started (confirm purchase, edit of
\* the stored data), forward by one step with the answer of the step left
\* stored, or back by one step.
MachineEdge ==
    \/ fsmState' = fsmState
    \/ fsmState' = NoState
    \/ fsmState = NoState /\ fsmState' = "waiting_for_name"
    \/ lastStep'.handler = "confirm_order_callback" /\ fsmState' = "waiting_for_name"
    \/ /\ fsmState # NoState
       /\ StepRank(fsmState') = StepRank(fsmState) + 1
       /\ fsmData'[AnswerOf(fsmState)] # None
    \/ StepRank(fsmState') = StepRank(fsmState) - 1

\* submit_order starts its submission (the customer save and the CRM order).
SubmissionStarts ==
    \E h \in Slots : handlers[h].kind = "idle" /\ handlers'[h].kind = "submit_order"

\* C11: the conversation state changes only along the edges of the checkout
\* machine (forward by one step on a stored answer, back by one step, or
\* cleared), and submit_order submits only in waiting_for_confirmation.
C11_StepsFollowTheMachine ==
    [][/\ MachineEdge
       /\ SubmissionStarts => fsmState = "waiting_for_confirmation"]_vars

\* C12: the chat has one conversation record, whose anchor message id is
\* either absent or the id of one order card, and a step changes the anchor
\* only when it is confirm_order_callback storing it or a clearing of the
\* whole record.
C12_AnchorStableUntilClear ==
    [][/\ fsmData.message_id \in {None} \cup {Some(m) : m \in MessageIds}
       /\ fsmData'.message_id # fsmData.message_id =>
             \/ lastStep'.handler = "confirm_order_callback"
             \/ fsmData' = EmptyData]_vars

\* Every kind of handler has acted on an anchored conversation: the answers
\* of the name, phone and city steps are stored, a contact prompt was sent,
\* and the back buttons have led back to the name step.
C12_Witness ==
    /\ fsmData.message_id # None
    /\ fsmState = "waiting_for_name"
    /\ fsmData.name # None /\ fsmData.phone # None /\ fsmData.city_branch # None
    /\ fsmData.contact_prompt_id # None

-----------------------------------------------------------------------------
(***************************************************************************)
(* SenderSpec: one SafeSender (services/safe_sender.py) with the           *)
(* UserService behind it (services/user_service.py).  Send operations and  *)
(* flush_pending_forbidden_statuses calls run as coroutines on one event   *)
(* loop; _forbidden_lock is only ever held across code that does not       *)
(* suspend, so each locked section is part of one step.                    *)
(***************************************************************************)
\* Chat 1 has a row in the users worksheet; chat 2 has none (a chat that was
\* answered without ever being registered).
SenderChats == {1, 2}
KnownChats == {1}
FlushIds == {1, 2}
\* The max_updates arguments tried are 0 .. MaxFlushUpdates.
MaxFlushUpdates == 2

SendOps == {"send_message", "send_photo", "answer", "answer_photo"}
\* What the Bot call of a send operation does: returns the Message, raises
\* TelegramForbiddenError, or raises another error.
BotCalls == {"response", "TelegramForbiddenError", "TelegramNetworkError"}

\* lastSend while the step taken last was not a send operation.
NoSend == [op |-> "", chat_id |-> 0, call |-> "", returned |-> "", raised |-> ""]

IdleFlush == [pc |-> "idle", to_process |-> <<>>, leftovers |-> <<>>, updated |-> 0]

SenderInit ==
    /\ forbidden_chat_ids = {}
    /\ flushes = [f \in FlushIds |-> IdleFlush]
    /\ worksheet = [c \in KnownChats |-> "active"]
    /\ status_cache = [c \in KnownChats |-> "active"]
    /\ recorded = {}
    /\ lastSend = NoSend
    /\ GateIdleInit
    /\ PromoIdleInit
    /\ OrderIdleInit
    /\ RunIdleInit
    /\ PhoneIdleInit
    /\ DeliveryIdleInit
    /\ LogIdleInit
    /\ RenderIdleInit
    /\ UsersIdleInit
    /\ RetryIdleInit
    /\ CardsIdleInit
    /\ StatusIdleInit
    /\ CacheIdleInit

\* A handler that forgets the chat: the refusal is swallowed, nothing queued.
handle_forbidden_dropping(chat_id, ids) == ids

\* SafeSender._handle_forbidden: the set after the call.
handle_forbidden(chat_id, ids) == ids \cup {chat_id}

\* The try/except of the four send operations: what the operation returns
\* ("Message" or "None") and what it raises ("" when nothing).
SafeCall(call) ==
    CASE call = "response" -> [returned |-> "Message", raised |-> ""]
      [] call = "TelegramForbiddenError" -> [returned |-> "None", raised |-> ""]
      [] OTHER -> [returned |-> "", raised |-> call]

\* SafeSender.send_message(chat_id, text): await self._bot.send_message(...)
send_message(chat_id, call) ==
    /\ forbidden_chat_ids' = IF call = "TelegramForbiddenError"
                             THEN handle_forbidden(chat_id, forbidden_chat_ids)
                             ELSE forbidden_chat_ids
    /\ recorded' = IF call = "TelegramForbiddenError"
                   THEN recorded \cup {chat_id} ELSE recorded
    /\ lastSend' = [op |-> "send_message", chat_id |-> chat_id, call |-> call,
                    returned |-> SafeCall(call).returned,
                    raised |-> SafeCall(call).raised]
    /\ UNCHANGED <<nonSenderVars, flushes, worksheet, status_cache>>

\* SafeSender.send_photo(chat_id, photo): await self._bot.send_photo(...)
send_photo(chat_id, call) ==
    /\ forbidden_chat_ids' = IF call = "TelegramForbiddenError"
                             THEN handle_forbidden(chat_id, forbidden_chat_ids)
                             ELSE forbidden_chat_ids
    /\ recorded' = IF call = "TelegramForbiddenError"
                   THEN recorded \cup {chat_id} ELSE recorded
    /\ lastSend' = [op |-> "send_photo", chat_id |-> chat_id, call |-> call,
                    returned |-> SafeCall(call).returned,
                    raised |-> SafeCall(call).raised]
    /\ UNCHANGED <<nonSenderVars, flushes, worksheet, status_cache>>

\* SafeSender.answer(message, text): await message.answer(...); the chat is
\* message.chat.id
answer(chat_id, call) ==
    /\ forbidden_chat_ids' = IF call = "TelegramForbiddenError"
                             THEN handle_forbidden(chat_id, forbidden_chat_ids)
                             ELSE forbidden_chat_ids
    /\ recorded' = IF call = "TelegramForbiddenError"
                   THEN recorded \cup {chat_id} ELSE recorded
    /\ lastSend' = [op |-> "answer", chat_id |-> chat_id, call |-> call,
                    returned |-> SafeCall(call).returned,
                    raised |-> SafeCall(call).raised]
    /\ UNCHANGED <<nonSenderVars, flushes, worksheet, status_cache>>

\* SafeSender.answer_photo(message, photo): await message.answer_photo(...)
answer_photo(chat_id, call) ==
    /\ forbidden_chat_ids' = IF call = "TelegramForbiddenError"
                             THEN handle_forbidden(chat_id, forbidden_chat_ids)
                             ELSE forbidden_chat_ids
    /\ recorded' = IF call = "TelegramForbiddenError"
                   THEN recorded \cup {chat_id} ELSE recorded
    /\ lastSend' = [op |-> "answer_photo", chat_id |-> chat_id, call |-> call,
                    returned |-> SafeCall(call).returned,
                    raised |-> SafeCall(call).raised]
    /\ UNCHANGED <<nonSenderVars, flushes, worksheet, status_cache>>

\* A flush that forgets what it does not process now.
FlushLeftovers_dropping(pending_chat_ids, max_updates) == <<>>

\* pending_chat_ids[max_updates:]
FlushLeftovers(pending_chat_ids, max_updates) ==
    SubSeq(pending_chat_ids, max_updates + 1, Len(pending_chat_ids))

\* flush_pending_forbidden_statuses, lines 40-49: the pending set is copied
\* and cleared under the lock; with nothing pending the call returns 0.
flush_begin(f, max_updates) ==
    /\ flushes[f].pc = "idle"
    /\ \A g \in FlushIds : g < f => flushes[g].pc # "idle"
    /\ LET pending_chat_ids == SetToSeq(forbidden_chat_ids)
           limit == Max(1, max_updates)
       IN  /\ forbidden_chat_ids' = {}
           /\ flushes' =
                IF pending_chat_ids = <<>> THEN flushes
                ELSE [flushes EXCEPT ![f] =
                        [pc |-> "updating",
                         to_process |-> SubSeq(pending_chat_ids, 1,
                                               Min(limit, Len(pending_chat_ids))),
                         leftovers |-> FlushLeftovers(pending_chat_ids, limit),
                         updated |-> 0]]
    /\ lastSend' = NoSend
    /\ UNCHANGED <<nonSenderVars, worksheet, status_cache, recorded>>

\* How the awaited update_status_by_chat_id(chat_id, False) ends under
\* wait_for(timeout=5).
UpdateEnds == {"returned", "TimeoutError", "Exception"}

\* UserService.update_status_by_chat_id(chat_id, False).  A chat without a
\* row in the cache goes to _find_and_cache_row_index_by_chat_id, which calls
\* SheetsClient.find_row_index; SheetsClient has no such method, and the
\* AttributeError leaves the call.  A row cached as left is left alone.
\* Otherwise update_cell writes left; when the call is cut short (timeout or
\* error) the write of the worker thread may or may not have been applied,
\* and the cache is not updated.
update_status_by_chat_id(chat_id, end, applied) ==
    IF chat_id \notin DOMAIN status_cache
    THEN [raised |-> TRUE, worksheet |-> worksheet, status_cache |-> status_cache]
    ELSE IF status_cache[chat_id] = "left"
    THEN [raised |-> end # "returned", worksheet |-> worksheet,
          status_cache |-> status_cache]
    ELSE IF end = "returned"
    THEN [raised |-> FALSE,
          worksheet |-> [worksheet EXCEPT ![chat_id] = "left"],
          status_cache |-> [status_cache EXCEPT ![chat_id] = "left"]]
    ELSE [raised |-> TRUE,
          worksheet |-> IF applied THEN [worksheet EXCEPT ![chat_id] = "left"]
                        ELSE worksheet,
          status_cache |-> status_cache]

\* flush_pending_forbidden_statuses, lines 51-71: one turn of the loop.  A
\* chat id whose update raised or timed out is appended to the leftovers.
flush_update(f, end, applied) ==
    /\ flushes[f].pc = "updating"
    /\ flushes[f].to_process # <<>>
    /\ end = "returned" => applied
    /\ LET chat_id == Head(flushes[f].to_process)
           done == update_status_by_chat_id(chat_id, end, applied)
       IN  /\ worksheet' = done.worksheet
           /\ status_cache' = done.status_cache
           /\ flushes' = [flushes EXCEPT
                  ![f].to_process = Tail(@),
                  ![f].updated = IF done.raised THEN @ ELSE @ + 1,
                  ![f].leftovers = IF done.raised THEN Append(@, chat_id) ELSE @]
    /\ lastSend' = NoSend
    /\ UNCHANGED <<nonSenderVars, forbidden_chat_ids, recorded>>

\* flush_pending_forbidden_statuses, lines 73-84: the leftovers go back to the
\* pending set under the lock and the call returns.
flush_end(f) ==
    /\ flushes[f].pc = "updating"
    /\ flushes[f].to_process = <<>>
    /\ forbidden_chat_ids' = forbidden_chat_ids \cup Range(flushes[f].leftovers)
    /\ flushes' = [flushes EXCEPT ![f] = IdleFlush]
    /\ lastSend' = NoSend
    /\ UNCHANGED <<nonSenderVars, worksheet, status_cache, recorded>>

SenderNext ==
    \/ \E c \in SenderChats, call \in BotCalls : send_message(c, call)
    \/ \E c \in SenderChats, call \in BotCalls : send_photo(c, call)
    \/ \E c \in SenderChats, call \in BotCalls : answer(c, call)
    \/ \E c \in SenderChats, call \in BotCalls : answer_photo(c, call)
    \/ \E f \in FlushIds, max_updates \in 0 .. MaxFlushUpdates : flush_begin(f, max_updates)
    \/ \E f \in FlushIds, end \in UpdateEnds, applied \in BOOLEAN :
          flush_update(f, end, applied)
    \/ \E f \in FlushIds : flush_end(f)

SenderSpec == SenderInit /\ [][SenderNext]_vars

\* C13: a send operation returns None exactly when the Bot call raised
\* TelegramForbiddenError; then it raises nothing and the chat id is in the
\* pending set right after it.  Any other error of the Bot call leaves the
\* operation as raised, with the pending set as it was before.
C13_NoneExactlyWhenForbidden ==
    [][lastSend'.op \in SendOps =>
        /\ (lastSend'.returned = "None") <=> (lastSend'.call = "TelegramForbiddenError")
        /\ lastSend'.returned = "None" =>
              /\ lastSend'.raised = ""
              /\ lastSend'.chat_id \in forbidden_chat_ids'
        /\ lastSend'.call \notin {"response", "TelegramForbiddenError"} =>
              /\ lastSend'.raised = lastSend'.call
              /\ lastSend'.returned = ""
              /\ forbidden_chat_ids' = forbidden_chat_ids]_vars

\* A refused send to a chat that has just been taken out of the pending set
\* by a flush still in progress, with the other chat pending.
C13_Witness ==
    /\ lastSend.op \in SendOps
    /\ lastSend.call = "TelegramForbiddenError"
    /\ lastSend.returned = "None"
    /\ \E f \in FlushIds : lastSend.chat_id \in Range(flushes[f].to_process)
    /\ forbidden_chat_ids = SenderChats

\* C14: whenever no flush is in progress, every chat id that was recorded as
\* blocked is still pending or its row of the users worksheet says left.
C14_NoBlockedChatLost ==
    (\A f \in FlushIds : flushes[f].pc = "idle") =>
        \A c \in recorded :
            \/ c \in forbidden_chat_ids
            \/ c \in DOMAIN worksheet /\ worksheet[c] = "left"

\* No flush is in progress; the chat with a row has been marked left, and the
\* other recorded chat is pending again after a flush that did not reach it
\* or failed on it.
C14_Witness ==
    /\ \A f \in FlushIds : flushes[f].pc = "idle"
    /\ recorded = SenderChats
    /\ \E c \in KnownChats : c \notin forbidden_chat_ids /\ worksheet[c] = "left"
    /\ \E c \in SenderChats \ KnownChats : c \in forbidden_chat_ids

\* FlushSpec: the same SafeSender when every chat is refused at most once
\* and flush_pending_forbidden_statuses keeps being called: a call that can
\* begin does begin, a loop turn whose update_cell can succeed eventually
\* runs with update_cell succeeding, and a call whose loop is over returns.
FlushNext ==
    \/ \E c \in SenderChats, call \in BotCalls :
          /\ call = "TelegramForbiddenError" => c \notin recorded
          /\ send_photo(c, call)
    \/ \E f \in FlushIds, max_updates \in 0 .. MaxFlushUpdates : flush_begin(f, max_updates)
    \/ \E f \in FlushIds, end \in UpdateEnds, applied \in BOOLEAN :
          flush_update(f, end, applied)
    \/ \E f \in FlushIds : flush_end(f)

FlushSpec ==
    /\ SenderInit
    /\ [][FlushNext]_vars
    /\ WF_vars(\E f \in FlushIds, max_updates \in 0 .. MaxFlushUpdates :
                  flush_begin(f, max_updates))
    /\ \A f \in FlushIds : SF_vars(flush_update(f, "returned", TRUE))
    /\ \A f \in FlushIds : WF_vars(flush_end(f))

\* The chat is neither in the pending set nor held by a flush in progress.
NotPending(c) ==
    /\ c \notin forbidden_chat_ids
    /\ \A f \in FlushIds :
          c \notin Range(flushes[f].to_process) \cup Range(flushes[f].leftovers)

\* C32: every chat id recorded as blocked eventually is out of the pending
\* set, with its row of the users worksheet (when it has one) saying left.
C32_BlockedEventuallyLeft ==
    \A c \in SenderChats :
        (c \in recorded) ~>
            (NotPending(c) /\ (c \in DOMAIN worksheet => worksheet[c] = "left"))

-----------------------------------------------------------------------------
(***************************************************************************)
(* RunSpec: one run of _broadcast_promo_impl (services/promo_scheduler.py) *)
(* through a SafeSender, over a users worksheet of up to MaxRunChats       *)
(* reachable chats.  Some chats refuse delivery as blocked; every other    *)
(* chat accepts every card, and the worksheet accepts every write.  The    *)
(* sends of a batch are gathered; their results do not depend on the order *)
(* in which they complete, and they are completed here in list order.      *)
(***************************************************************************)
MaxRunChats == 32

STATUS_COLUMN == 6
CHAT_ID_COLUMN == 2

\* A row of the users worksheet: the number of its cells, its chat id cell as
\* int() reads it (None when int() raises) and its status cell, a sequence of
\* characters (empty when the row has no sixth cell).
Row(cells, chat, status) == [cells |-> cells, chat |-> chat, status |-> status]

ActiveCell == <<"a", "c", "t", "i", "v", "e">>
LeftCell == <<"l", "e", "f", "t">>

\* str.lower() on the letters the status cells are written with.
lower_char(ch) ==
    CASE ch = "L" -> "l" [] ch = "E" -> "e" [] ch = "F" -> "f" [] ch = "T" -> "t"
      [] ch = "A" -> "a" [] OTHER -> ch
lower(str) == [i \in 1 .. Len(str) |-> lower_char(str[i])]

\* get_chat_ids, lines 170-174: the row is skipped as left.
IsLeftRow(row) ==
    row.cells >= STATUS_COLUMN /\ lower(strip(row.status)) = LeftCell

\* A filter that compares the status cell as it is written.
UserService_get_chat_ids_verbatim(rows) ==
    LET kept == SelectSeq(rows, LAMBDA row :
                    /\ row.cells >= CHAT_ID_COLUMN
                    /\ ~(row.cells >= STATUS_COLUMN /\ row.status = LeftCell)
                    /\ row.chat # None)
    IN  [i \in 1 .. Len(kept) |-> kept[i].chat[1]]

\* UserService.get_chat_ids over the data rows of the worksheet: rows with
\* fewer than two cells, rows marked left and rows whose chat id cell is not
\* an integer are skipped.
UserService_get_chat_ids(rows) ==
    LET kept == SelectSeq(rows, LAMBDA row :
                    /\ row.cells >= CHAT_ID_COLUMN
                    /\ ~IsLeftRow(row)
                    /\ row.chat # None)
    IN  [i \in 1 .. Len(kept) |-> kept[i].chat[1]]

\* The worksheet rows besides the rows of the reachable chats: none, a row
\* marked left (written "left" or " Left "), a row whose chat id cell is not a
\* number, a row with one cell, and a row with two cells (reachable: it has
\* no status cell).
ExtraRows(chat) ==
    { <<>>,
      << Row(6, Some(chat), LeftCell) >>,
      << Row(6, Some(chat), <<" ", "L", "e", "f", "t", " ">>) >>,
      << Row(6, None, ActiveCell) >>,
      << Row(1, None, <<>>) >>,
      << Row(2, Some(chat), <<>>) >> }

IdleRun ==
    [pc |-> "load", products |-> 0, chat_ids |-> <<>>, batch_no |-> 0,
     results |-> <<>>, success |-> 0, forbidden |-> 0, temporary_errors |-> 0,
     permanent_errors |-> 0, to_process |-> <<>>, leftovers |-> <<>>,
     loaded_rows |-> <<>>]

RunInit ==
    /\ \E n \in 0 .. MaxRunChats :
       \E k \in 0 .. n :
       \E extra \in ExtraRows(n + 1) :
          /\ users_rows = extra \o [i \in 1 .. n |-> Row(6, Some(i), ActiveCell)]
          /\ refusing = (1 .. k) \cup
                        (IF extra # <<>> /\ IsLeftRow(extra[1]) THEN {n + 1} ELSE {})
    /\ run = IdleRun
    /\ run_pending = {}
    /\ attempted = {}
    /\ run_result = None
    /\ GateIdleInit
    /\ PromoIdleInit
    /\ OrderIdleInit
    /\ SenderIdleInit
    /\ PhoneIdleInit
    /\ DeliveryIdleInit
    /\ LogIdleInit
    /\ RenderIdleInit
    /\ UsersIdleInit
    /\ RetryIdleInit
    /\ CardsIdleInit
    /\ StatusIdleInit
    /\ CacheIdleInit

\* _broadcast_promo_impl, lines 126-152: the products and the chat ids are
\* loaded; without chats the run returns the no_chats result.
broadcast_load ==
    /\ run.pc = "load"
    /\ LET products == Cardinality(Products)
           chat_ids == UserService_get_chat_ids(users_rows)
       IN  IF chat_ids = <<>>
           THEN /\ run' = [run EXCEPT !.pc = "returned", !.products = products,
                                      !.loaded_rows = users_rows]
                /\ run_result' = Some(PromoBroadcastResult("no_chats", 0, products))
           ELSE /\ run' = [run EXCEPT !.pc = "batch", !.products = products,
                                      !.chat_ids = chat_ids, !.batch_no = 1,
                                      !.loaded_rows = users_rows]
                /\ run_result' = run_result
    /\ UNCHANGED <<nonRunVars, users_rows, refusing,
                   run_pending, attempted>>

RunBatch == Chunk(run.chat_ids, max_parallel_sends, run.batch_no)

\* A sender whose refusals surface as errors, as the bare Bot's do.
send_products_to_chat_raising(chat_id) ==
    IF chat_id \in refusing THEN "permanent_error" ELSE "success"

\* _send_products_with_retry over _send_products_to_chat: a refusing chat
\* makes SafeSender.send_photo return None on the first card ("forbidden");
\* another chat takes every card ("success").
send_products_to_chat(chat_id) ==
    IF chat_id \in refusing THEN "forbidden" ELSE "success"

\* One send of the gathered batch completes.
send_products_with_retry ==
    /\ run.pc = "batch"
    /\ Len(run.results) < Len(RunBatch)
    /\ LET chat_id == RunBatch[Len(run.results) + 1]
           result == send_products_to_chat(chat_id)
       IN  /\ run' = [run EXCEPT !.results = Append(@, result)]
           /\ run_pending' = IF result = "forbidden"
                             THEN handle_forbidden(chat_id, run_pending)
                             ELSE run_pending
           /\ attempted' = attempted \cup {chat_id}
    /\ UNCHANGED <<nonRunVars, users_rows, refusing,
                   run_result>>

CountOf(results, outcome) ==
    Cardinality({i \in 1 .. Len(results) : results[i] = outcome})

\* _broadcast_promo_impl, lines 163-179: the gather is complete and the
\* counters take the results of the batch.
broadcast_batch_done ==
    /\ run.pc = "batch"
    /\ Len(run.results) = Len(RunBatch)
    /\ run' = [run EXCEPT
          !.success = @ + CountOf(run.results, "success"),
          !.forbidden = @ + CountOf(run.results, "forbidden"),
          !.temporary_errors = @ + CountOf(run.results, "temporary_error"),
          !.permanent_errors = @ + CountOf(run.results, "permanent_error"),
          !.results = <<>>,
          !.batch_no = IF run.batch_no < NumChunks(run.chat_ids, max_parallel_sends)
                       THEN @ + 1 ELSE @,
          !.pc = IF run.batch_no < NumChunks(run.chat_ids, max_parallel_sends)
                 THEN "batch" ELSE "flush"]
    /\ UNCHANGED <<nonRunVars, users_rows, refusing,
                   run_pending, attempted, run_result>>

\* _broadcast_promo_impl, lines 181-184, into flush_pending_forbidden_statuses
\* (max_updates=30): the pending set is taken and split.
broadcast_flush_begin ==
    /\ run.pc = "flush"
    /\ LET pending_chat_ids == SetToSeq(run_pending)
           limit == Max(1, flush_max_updates)
       IN  /\ run_pending' = {}
           /\ run' = [run EXCEPT
                  !.pc = "flushing",
                  !.to_process = SubSeq(pending_chat_ids, 1,
                                        Min(limit, Len(pending_chat_ids))),
                  !.leftovers = FlushLeftovers(pending_chat_ids, limit)]
    /\ UNCHANGED <<nonRunVars, users_rows, refusing,
                   attempted, run_result>>

\* UserService.update_status_by_chat_id(chat_id, False) on the worksheet rows:
\* the row the chat id cache names (the last row with that chat id) gets left
\* in its status cell, unless its status is cached as left.
MarkLeft(rows, chat_id) ==
    LET hits == {i \in 1 .. Len(rows) : rows[i].chat = Some(chat_id)} IN
    IF hits = {} THEN rows
    ELSE LET i == CHOOSE j \in hits : \A h \in hits : h <= j IN
         IF IsLeftRow(rows[i]) THEN rows
         ELSE [rows EXCEPT ![i] = Row(Max(rows[i].cells, STATUS_COLUMN),
                                      rows[i].chat, LeftCell)]

\* flush_pending_forbidden_statuses, lines 52-71: one turn of the loop.
broadcast_flush_update ==
    /\ run.pc = "flushing"
    /\ run.to_process # <<>>
    /\ users_rows' = MarkLeft(users_rows, Head(run.to_process))
    /\ run' = [run EXCEPT !.to_process = Tail(@)]
    /\ UNCHANGED <<nonRunVars, refusing, run_pending,
                   attempted, run_result>>

\* flush_pending_forbidden_statuses, lines 73-84, and _broadcast_promo_impl,
\* lines 185-210: the leftovers are queued again and the result is returned.
broadcast_return ==
    /\ run.pc = "flushing"
    /\ run.to_process = <<>>
    /\ run_pending' = run_pending \cup Range(run.leftovers)
    /\ run' = [run EXCEPT !.pc = "returned"]
    /\ run_result' = Some(
          [status |-> IF run.temporary_errors > 0 \/ run.permanent_errors > 0
                      THEN "sent_with_failures" ELSE "sent",
           chats |-> Len(run.chat_ids),
           products |-> run.products,
           success |-> run.success,
           forbidden |-> run.forbidden,
           temporary_errors |-> run.temporary_errors,
           permanent_errors |-> run.permanent_errors])
    /\ UNCHANGED <<nonRunVars, users_rows, refusing,
                   attempted>>

RunNext ==
    \/ broadcast_load
    \/ send_products_with_retry
    \/ broadcast_batch_done
    \/ broadcast_flush_begin
    \/ broadcast_flush_update
    \/ broadcast_return

RunSpec == RunInit /\ [][RunNext]_vars

\* The chats of the run that refuse delivery.
BlockedOfRun == Range(run.chat_ids) \cap refusing

\* C15: a run over N >= 1 chats of which K refuse as blocked returns
\* success = N - K, forbidden = K, no temporary or permanent errors, and
\* status "sent".
C15_CountsOfRun ==
    (run_result # None /\ run.chat_ids # <<>>) =>
        LET N == Len(run.chat_ids)
            K == Cardinality(BlockedOfRun)
        IN  /\ run_result[1].status = "sent"
            /\ run_result[1].success = N - K
            /\ run_result[1].forbidden = K
            /\ run_result[1].temporary_errors = 0
            /\ run_result[1].permanent_errors = 0

\* A returned run of two batches with blocked chats in both.
C15_Witness ==
    /\ run_result # None
    /\ Len(run.chat_ids) > max_parallel_sends
    /\ Cardinality(BlockedOfRun) > max_parallel_sends
    /\ Cardinality(BlockedOfRun) < Len(run.chat_ids)

\* The status cell says left, however it is written.
SaysLeft(row) ==
    row.cells >= STATUS_COLUMN /\
    row.status \in {LeftCell, <<" ", "L", "e", "f", "t", " ">>}

\* C16: when the run has returned, the worksheet row of every chat of the run
\* that refused delivery says left.
C16_BlockedAreLeftAtReturn ==
    run_result # None =>
        \A c \in BlockedOfRun :
            \E i \in 1 .. Len(users_rows) :
                users_rows[i].chat = Some(c) /\ SaysLeft(users_rows[i])

\* C17: the chat ids loaded are exactly the chat ids of the rows that do not
\* say left, and no delivery is attempted to a chat whose row said left when
\* the list was loaded.
C17_LeftChatsAreSkipped ==
    run.pc # "load" =>
        /\ \A c \in 1 .. MaxRunChats + 2 :
              c \in Range(run.chat_ids) <=>
                 \E i \in 1 .. Len(run.loaded_rows) :
                    /\ run.loaded_rows[i].chat = Some(c)
                    /\ ~SaysLeft(run.loaded_rows[i])
        /\ \A i \in 1 .. Len(run.loaded_rows) :
              (run.loaded_rows[i].chat # None /\ SaysLeft(run.loaded_rows[i]))
                 => run.loaded_rows[i].chat[1] \notin attempted

\* A returned run that attempted every loaded chat, over a worksheet with a
\* row written " Left ".
C17_Witness ==
    /\ run_result # None
    /\ attempted # {} /\ attempted = Range(run.chat_ids)
    /\ \E i \in 1 .. Len(run.loaded_rows) :
          run.loaded_rows[i].status = <<" ", "L", "e", "f", "t", " ">>

SentFamily == {"sent", "sent_with_failures"}

\* The broadcast that promo_tick t ran comes back with a result in this step.
TickBroadcastReturns(t) ==
    /\ tasks[t].kind = "tick"
    /\ tasks[t].pc \in ImplPcs \cup {"waiting"}
    /\ tasks'[t].pc \notin ImplPcs \cup {"waiting"}
    /\ ~lastReturn'.raised

Contains(text, part) ==
    \E i \in 0 .. Len(text) - Len(part) : SubSeq(text, i + 1, i + Len(part)) = part

\* confirm_order_callback starts a conversation in this step.
PurchaseConfirmed == conversation' # conversation

\* The confirm_existing_order of slot h gets the customer row in this step.
ReuseLookedUp(h) ==
    /\ handlers[h].kind = "confirm_existing_order"
    /\ handlers[h].pc = "get_customer"
    /\ handlers'[h].pc # "get_customer"

\* The confirm_existing_order of slot h calls send_order once in this step,
\* with the stored name and phone and a comment naming the stored city and
\* branch.
ReuseOrderSent(h) ==
    LET conv == handlers[h].conv
        stored == customer[1]
        order == handlers'[h].order[1]
    IN  /\ handlers'[h].pc = "send_order"
        /\ handlers'[h].order # None
        /\ crmCalls'[conv]["confirm_existing_order"] =
               crmCalls[conv]["confirm_existing_order"] + 1
        /\ crmCalls'[conv]["submit_order"] = crmCalls[conv]["submit_order"]
        /\ order.buyer_name = stored.name
        /\ order.phone = stored.phone
        /\ Contains(order.comment, stored.city)
        /\ Contains(order.comment, stored.post_office)

AskingStates == {"waiting_for_name", "waiting_for_phone"}

-----------------------------------------------------------------------------
(***************************************************************************)
(* PhoneSpec: utils.phone.normalize_ua_phone applied to bounded inputs.    *)
(* An input is a lead (nothing, "+", or an opening bracket), a head (a     *)
(* country or trunk prefix, or none) and a body of digits, optionally     *)
(* written with a space and a dash.                                        *)
(***************************************************************************)
\* The longest body of digits tried.
MaxPhoneBody == 10

PhoneLeads == { <<>>, <<"+">>, <<"(">> }
PhoneHeads == { <<>>, <<"0">>, <<"8", "0">>, <<"3", "8", "0">>, <<"3", "8">>,
                <<"8">>, <<"7">> }
BodyDigits == <<"5", "0", "1", "2", "3", "4", "5", "6", "7", "8", "9">>
\* Bodies of MaxPhoneBody - 3 .. MaxPhoneBody digits starting with first, and
\* the empty body.
PhoneBodies ==
    { <<>> } \cup
    { <<first>> \o SubSeq(BodyDigits, 2, n) :
          first \in {"5", "0", "8"}, n \in MaxPhoneBody - 3 .. MaxPhoneBody }
\* The body as typed: as it is, or with a space after its first digit and a
\* dash before its last.
Typed(body) ==
    IF Len(body) < 2 THEN {body}
    ELSE {body,
          <<body[1], " ">> \o SubSeq(body, 2, Len(body) - 1) \o <<"-", body[Len(body)]>>}

PhoneInputs ==
    UNION { { lead \o head \o typed : typed \in Typed(body) } :
              lead \in PhoneLeads, head \in PhoneHeads, body \in PhoneBodies }

PhoneInit ==
    /\ phoneRaw \in PhoneInputs
    /\ phoneResult = None
    /\ GateIdleInit
    /\ PromoIdleInit
    /\ OrderIdleInit
    /\ SenderIdleInit
    /\ RunIdleInit
    /\ DeliveryIdleInit
    /\ LogIdleInit
    /\ RenderIdleInit
    /\ UsersIdleInit
    /\ RetryIdleInit
    /\ CardsIdleInit
    /\ StatusIdleInit
    /\ CacheIdleInit

\* phone = normalize_ua_phone(raw_phone)
NormalizeCall ==
    /\ phoneResult = None
    /\ phoneResult' = Some(normalize_ua_phone(phoneRaw))
    /\ UNCHANGED <<nonPhoneVars, phoneRaw>>

PhoneNext == NormalizeCall

PhoneSpec == PhoneInit /\ [][PhoneNext]_vars

\* The digit characters of a text, in order.
DigitsOf(text) == SelectSeq(text, LAMBDA ch : ch \in Digit)

\* The nine national digits of a text whose digits are 380XXXXXXXXX,
\* 80XXXXXXXXX or 0XXXXXXXXX; None for any other shape.
NationalDigits(text) ==
    LET d == DigitsOf(text)
        last9 == SubSeq(d, Len(d) - 8, Len(d))
    IN  IF \/ Len(d) = 12 /\ SubSeq(d, 1, 3) = <<"3", "8", "0">>
           \/ Len(d) = 11 /\ SubSeq(d, 1, 2) = <<"8", "0">>
           \/ Len(d) = 10 /\ SubSeq(d, 1, 1) = <<"0">>
        THEN Some(last9) ELSE None

\* C19: for a text whose digits have one of the three shapes the function
\* returns "+380" followed by the nine national digits, and for every other
\* text it returns None.
C19_NormalizedOrInvalid ==
    phoneResult # None =>
        LET national == NationalDigits(phoneRaw) IN
        IF national = None
        THEN phoneResult[1] = None
        ELSE phoneResult[1] = Some(<<"+", "3", "8", "0">> \o national[1])

\* The 11-digit form, typed with a bracket, a space and a dash, was normalized.
C19_Witness ==
    /\ phoneResult # None /\ phoneResult[1] # None
    /\ Len(DigitsOf(phoneRaw)) = 11
    /\ Len(phoneRaw) > 11

-----------------------------------------------------------------------------
(***************************************************************************)
(* DeliverySpec: what city_branch_handler and submit_order make of one     *)
(* city/branch message: the summary line shown to the buyer, the customer  *)
(* row, the CRM comment and the line of the operations notice.             *)
(***************************************************************************)
\* The longest message text tried.
MaxDeliveryLen == 4

DeliveryAlphabet == {"K", "7", ",", " "}
\* message.text of a text message is never the empty string.
DeliveryTexts == UNION { [1 .. n -> DeliveryAlphabet] : n \in 1 .. MaxDeliveryLen }

NoDelivery ==
    [stage |-> "entered", city_branch |-> <<>>, summary |-> <<>>, city |-> <<>>,
     post_office |-> <<>>, comment |-> <<>>, notice |-> <<>>]

DeliveryInit ==
    /\ enteredText \in DeliveryTexts
    /\ deliveryOut = NoDelivery
    /\ GateIdleInit
    /\ PromoIdleInit
    /\ OrderIdleInit
    /\ SenderIdleInit
    /\ RunIdleInit
    /\ PhoneIdleInit
    /\ LogIdleInit
    /\ RenderIdleInit
    /\ UsersIdleInit
    /\ RetryIdleInit
    /\ CardsIdleInit
    /\ StatusIdleInit
    /\ CacheIdleInit

\* city_branch_handler, lines 357-369: the stripped text is stored and shown
\* in the last line of the summary.
city_branch_entry ==
    /\ deliveryOut.stage = "entered"
    /\ deliveryOut' = [deliveryOut EXCEPT !.stage = "confirmation",
                                          !.city_branch = strip(enteredText),
                                          !.summary = strip(enteredText)]
    /\ UNCHANGED <<nonDeliveryVars, enteredText>>

\* submit_order, lines 433-481: the stored text is split, the parts are saved
\* as the customer's city and post_office, and the delivery text of the CRM
\* comment and of the operations notice is joined again from the parts.
submit_delivery ==
    /\ deliveryOut.stage = "confirmation"
    /\ LET parts == SplitDelivery(Some(deliveryOut.city_branch))
           text == delivery_text(parts.city, parts.post_office)
       IN  deliveryOut' = [deliveryOut EXCEPT
                              !.stage = "submitted",
                              !.city = parts.city,
                              !.post_office = parts.post_office,
                              !.comment = delivery_comment(text),
                              !.notice = IF text = <<>> THEN <<"-">> ELSE text]
    /\ UNCHANGED <<nonDeliveryVars, enteredText>>

DeliveryNext == city_branch_entry \/ submit_delivery

DeliverySpec == DeliveryInit /\ [][DeliveryNext]_vars

\* The text without the blanks around it.
Trimmed(text) ==
    LET inked == {i \in 1 .. Len(text) : text[i] # " "} IN
    IF inked = {} THEN <<>>
    ELSE SubSeq(text, CHOOSE i \in inked : \A j \in inked : i <= j,
                      CHOOSE i \in inked : \A j \in inked : i >= j)

\* The position of the first comma of a text, 0 without one.
FirstComma(text) ==
    LET commas == {i \in 1 .. Len(text) : text[i] = ","} IN
    IF commas = {} THEN 0 ELSE CHOOSE i \in commas : \A j \in commas : i <= j

\* C21: once an entered city/branch text is submitted, the customer's city and
\* branch are the parts of the text before and after its first comma, and the
\* delivery text of the CRM comment and of the buyer's summary is the entered
\* text itself.
C21_DeliveryTextKept ==
    deliveryOut.stage = "submitted" =>
        LET entered == Trimmed(enteredText)
            comma == FirstComma(entered)
        IN  /\ deliveryOut.city =
                  IF comma = 0 THEN entered
                  ELSE Trimmed(SubSeq(entered, 1, comma - 1))
            /\ deliveryOut.post_office =
                  IF comma = 0 THEN <<>>
                  ELSE Trimmed(SubSeq(entered, comma + 1, Len(entered)))
            /\ deliveryOut.summary = entered
            /\ deliveryOut.comment = <<"D", "e", "l", "i", "v", "e", "r", "y", ":", " ">> \o entered

-----------------------------------------------------------------------------
(***************************************************************************)
(* EntrySpec: the answer and back handlers of the checkout conversation of *)
(* one chat, with their steps named in lastStep, for a buyer with or       *)
(* without a stored customer row.  The confirmation handlers are the       *)
(* subject of OrderSpec and take no step here.                             *)
(***************************************************************************)
StoredCustomers ==
    { None,
      Some([name |-> <<"A">>,
            phone |-> <<"+", "3", "8", "0", "5", "0", "1", "2", "3", "4", "5", "6", "7">>,
            city |-> <<"K">>, post_office |-> <<"7">>]) }

\* The city/branch texts of OrderSpec and a message of one blank.
EntryCityTexts == CityTexts \cup { <<" ">> }

\* The phone_number of a shared contact, as Telegram gives it: with the
\* leading plus or, as for a contact shared with the request_contact button,
\* without it.
EntryContactPhones ==
    ContactPhones \cup { <<"3", "8", "0", "5", "0", "1", "2", "3", "4", "5", "6", "7">> }

EntryInit ==
    /\ fsmState = NoState
    /\ fsmData = EmptyData
    /\ selected = None
    /\ customer \in StoredCustomers
    /\ nextMessageId = 1
    /\ keyboards = [m \in MessageIds |-> "unsent"]
    /\ handlers = [h \in Slots |-> IdleHandler]
    /\ conversation = 0
    /\ deliveries = 0
    /\ crmCalls = [c \in Conversations |-> [k \in ConfirmationHandlers |-> 0]]
    /\ lastStep = Other
    /\ stepLog = TRUE
    /\ GateIdleInit
    /\ PromoIdleInit
    /\ SenderIdleInit
    /\ RunIdleInit
    /\ PhoneIdleInit
    /\ DeliveryIdleInit
    /\ RenderIdleInit
    /\ UsersIdleInit
    /\ RetryIdleInit
    /\ CardsIdleInit
    /\ StatusIdleInit
    /\ CacheIdleInit

EntryNext ==
    \/ \E pid \in BuyIds, ok \in BOOLEAN : buy_product_callback(pid, ok)
    \/ \E m \in MessageIds : CancelPressed(m)
    \/ \E m \in MessageIds : confirm_order_callback(m)
    \/ \E text \in NameTexts, deleted \in BOOLEAN : name_handler(text, deleted)
    \/ \E m \in MessageIds, ok \in BOOLEAN : phone_contact_request(m, ok)
    \/ \E phone \in EntryContactPhones, deleted \in BOOLEAN : phone_contact_handler(phone, deleted)
    \/ \E text \in PhoneTexts, deleted \in BOOLEAN : phone_text_handler(text, deleted)
    \/ \E text \in EntryCityTexts, deleted \in BOOLEAN : city_branch_handler(text, deleted)
    \/ \E m \in MessageIds : back_name(m)
    \/ \E m \in MessageIds : back_phone(m)
    \/ \E m \in MessageIds : back_city(m)
    \/ \E m \in MessageIds : edit_existing_data(m)
    \/ \E m \in MessageIds : back_to_product_card(m)

EntrySpec == EntryInit /\ [][EntryNext]_vars

\* The answers collected at a step and at the steps after it.
AnswersFrom(state) ==
    CASE state = "waiting_for_name" -> {"name", "phone", "city_branch"}
      [] state = "waiting_for_phone" -> {"phone", "city_branch"}
      [] state = "waiting_for_city_branch" -> {"city_branch"}

\* What a back action has to keep: the product, the anchor and the answers of
\* the earlier steps.
KeptOnBack(state) ==
    {"message_id", "product_id", "product_name", "product_price", "formatted_price",
     "name", "phone", "city_branch"} \ AnswersFrom(state)

\* C25: a back action that returns the conversation to a step leaves no
\* answer of that step or of a later step in the data, and leaves the
\* product, the anchor message id and the earlier answers as they were.
C25_BackClearsLaterAnswers ==
    [][lastStep'.outcome = "back" =>
          /\ \A k \in AnswersFrom(fsmState') : fsmData'[k] = None
          /\ \A k \in KeptOnBack(fsmState') : fsmData'[k] = fsmData[k]]_vars

\* C26: a text of blanks only, sent in waiting_for_name, changes nothing of
\* the conversation: the state stays waiting_for_name, the data (the name
\* included) and the order card stay as they were.
C26_BlankNameChangesNothing ==
    [][lastStep'.handler = "name_handler" /\ lastStep'.outcome = "blank text" =>
          /\ fsmState = "waiting_for_name"
          /\ UNCHANGED <<fsmState, fsmData, keyboards, selected, customer,
                         nextMessageId, handlers, conversation>>]_vars

\* A blank name was sent in waiting_for_name, before any name was stored.
C26_Witness ==
    /\ lastStep.handler = "name_handler" /\ lastStep.outcome = "blank text"
    /\ fsmState = "waiting_for_name"
    /\ fsmData.product_id # None /\ fsmData.name = None

PhoneHandlers == {"phone_text_handler", "phone_contact_handler"}

IsNormalizedPhone(text) ==
    /\ Len(text) = 13
    /\ SubSeq(text, 1, 4) = <<"+", "3", "8", "0">>
    /\ \A i \in 5 .. 13 : IsDigit(text[i])

\* C38: in waiting_for_city_branch and in waiting_for_confirmation the data
\* holds a phone, and it is +380 followed by nine digits.
C38_StoredPhoneNormalized ==
    fsmState \in {"waiting_for_city_branch", "waiting_for_confirmation"} =>
        fsmData.phone # None /\ IsNormalizedPhone(fsmData.phone[1])

\* What the confirmation step shows and submit_order reads.
ConfirmationKeys ==
    {"message_id", "product_id", "product_name", "product_price",
     "name", "phone", "city_branch"}

\* C39: in waiting_for_confirmation the data holds the anchor message id,
\* the product id, name and price, and the name, phone and city_branch of
\* the recipient.
C39_ConfirmationDataComplete ==
    fsmState = "waiting_for_confirmation" =>
        \A k \in ConfirmationKeys : fsmData[k] # None

\* C28: in waiting_for_confirmation the stored city_branch text is not empty.
C28_ConfirmationHasDelivery ==
    fsmState = "waiting_for_confirmation" =>
        fsmData.city_branch # None /\ fsmData.city_branch[1] # <<>>

-----------------------------------------------------------------------------
(***************************************************************************)
(* RenderSpec: the Bot API calls by which a step of the conversation is    *)
(* rendered on the anchor message: update_step for the order steps, and    *)
(* the render of back_to_product_card.                                     *)
(***************************************************************************)
Renderers == {"update_step", "back_to_product_card"}
StepKeyboards == {"name_kb", "confirm_existing_kb", "phone_kb", "city_branch_kb",
                  "confirm_kb"}

\* A render: the anchor message id of the data (None when absent), whether
\* the image file of the step exists, and whether Telegram accepts the edits.
RenderInputs ==
    [via : Renderers,
     message_id : {None} \cup {Some(m) : m \in MessageIds},
     keyboard : StepKeyboards,
     image_exists : BOOLEAN,
     media_ok : BOOLEAN,
     caption_ok : BOOLEAN]

NotRendered == [done |-> FALSE, calls |-> <<>>, raised |-> FALSE, shown |-> "old"]

RenderInit ==
    /\ renderIn \in {r \in RenderInputs :
                        /\ r.via = "back_to_product_card" => r.message_id # None
                        /\ r.via = "back_to_product_card" => r.keyboard = "confirm_kb"}
    /\ renderOut = NotRendered
    /\ GateIdleInit
    /\ PromoIdleInit
    /\ OrderIdleInit
    /\ SenderIdleInit
    /\ RunIdleInit
    /\ PhoneIdleInit
    /\ DeliveryIdleInit
    /\ LogIdleInit
    /\ UsersIdleInit
    /\ RetryIdleInit
    /\ CardsIdleInit
    /\ StatusIdleInit
    /\ CacheIdleInit

\* order.update_step, lines 121-170: without an anchor nothing is called; with
\* the image file edit_message_media is called, without it
\* edit_message_caption; whatever the call raises is logged.
update_step_render ==
    /\ renderIn.via = "update_step"
    /\ ~renderOut.done
    /\ renderOut' =
          IF renderIn.message_id = None
          THEN [NotRendered EXCEPT !.done = TRUE]
          ELSE IF renderIn.image_exists
          THEN [done |-> TRUE, calls |-> <<"edit_message_media">>, raised |-> FALSE,
                shown |-> IF renderIn.media_ok THEN renderIn.keyboard ELSE "old"]
          ELSE [done |-> TRUE, calls |-> <<"edit_message_caption">>, raised |-> FALSE,
                shown |-> IF renderIn.caption_ok THEN renderIn.keyboard ELSE "old"]
    /\ UNCHANGED <<nonRenderVars, renderIn>>

\* order.back_to_product_card, lines 533-553: edit_message_media with the
\* banner; when it raises (the banner file missing included)
\* edit_message_caption is called, outside any try.
back_to_product_card_render ==
    /\ renderIn.via = "back_to_product_card"
    /\ ~renderOut.done
    /\ renderOut' =
          IF renderIn.image_exists /\ renderIn.media_ok
          THEN [done |-> TRUE, calls |-> <<"edit_message_media">>, raised |-> FALSE,
                shown |-> "confirmation_keyboard"]
          ELSE [done |-> TRUE,
                calls |-> <<"edit_message_media", "edit_message_caption">>,
                raised |-> ~renderIn.caption_ok,
                shown |-> IF renderIn.caption_ok THEN "confirmation_keyboard" ELSE "old"]
    /\ UNCHANGED <<nonRenderVars, renderIn>>

RenderNext == update_step_render \/ back_to_product_card_render

RenderSpec == RenderInit /\ [][RenderNext]_vars

\* C29: when update_step has called edit_message_media for a step and the
\* call failed, it goes on to call edit_message_caption for the same anchor,
\* and it does not raise into the handler.
C29_MediaFailureFallsBackToCaption ==
    (/\ renderOut.done
     /\ renderIn.via = "update_step"
     /\ renderOut.calls # <<>> /\ renderOut.calls[1] = "edit_message_media"
     /\ ~renderIn.media_ok)
        => /\ renderOut.calls = <<"edit_message_media", "edit_message_caption">>
           /\ ~renderOut.raised

-----------------------------------------------------------------------------
(***************************************************************************)
(* UsersSpec: UserService.ensure_user_record, started as a task by every   *)
(* /start (start_handler, asyncio.create_task), on one event loop.  A call *)
(* is suspended while the worksheet is read or written; the caches are     *)
(* read and written between the awaits.                                    *)
(***************************************************************************)
\* The number of ensure_user_record tasks started.
MaxEnsureCalls == 3

UserIds == {1, 2}
EnsureCalls == 1 .. MaxEnsureCalls
\* The row index of the header row; the data rows follow it.
HeaderRows == 1

NoCall == [pc |-> "idle", user_id |-> 0, row_index |-> 0, created |-> FALSE]

\* The worksheet at startup: empty below the header, or holding the row of
\* user 1, active or left.
StartRows ==
    { <<>>, <<[user_id |-> 1, status |-> "active"]>>,
      <<[user_id |-> 1, status |-> "left"]>> }

UsersInit ==
    /\ sheet_rows \in StartRows
    /\ row_index_cache = None
    /\ user_status_cache = None
    /\ last_row_index = 0
    /\ ensure_calls = [c \in EnsureCalls |-> NoCall]
    /\ GateIdleInit
    /\ PromoIdleInit
    /\ OrderIdleInit
    /\ SenderIdleInit
    /\ RunIdleInit
    /\ PhoneIdleInit
    /\ DeliveryIdleInit
    /\ LogIdleInit
    /\ RenderIdleInit
    /\ RetryIdleInit
    /\ CardsIdleInit
    /\ StatusIdleInit
    /\ CacheIdleInit

\* The row index of the last row of the user in the rows, 0 without one
\* (_ensure_row_index_cache, lines 53-69: a later row overwrites an earlier).
RowIndexIn(rows, user_id) ==
    LET found == {i \in 1 .. Len(rows) : rows[i].user_id = user_id} IN
    IF found = {} THEN 0
    ELSE HeaderRows + (CHOOSE i \in found : \A j \in found : i >= j)

StatusIn(rows, user_id) ==
    LET index == RowIndexIn(rows, user_id) IN
    IF index = 0 THEN "" ELSE rows[index - HeaderRows].status

\* ensure_user_record, lines 126-130: the caches are built from the worksheet
\* by the first call (under _cache_lock, so that later calls find them), and
\* the row index of the user is looked up.
ensure_lookup(c, user_id) ==
    /\ ensure_calls[c].pc = "idle"
    /\ \A b \in EnsureCalls : b < c => ensure_calls[b].pc # "idle"
    /\ IF row_index_cache = None
       THEN /\ row_index_cache' = Some([u \in UserIds |-> RowIndexIn(sheet_rows, u)])
            /\ user_status_cache' = Some([u \in UserIds |-> StatusIn(sheet_rows, u)])
            /\ last_row_index' = HeaderRows + Len(sheet_rows)
       ELSE UNCHANGED <<row_index_cache, user_status_cache, last_row_index>>
    /\ LET row_index == row_index_cache'[1][user_id] IN
       ensure_calls' = [ensure_calls EXCEPT ![c] =
           [pc |-> IF row_index # 0 THEN "existing" ELSE "append_row",
            user_id |-> user_id, row_index |-> row_index, created |-> FALSE]]
    /\ UNCHANGED <<nonUsersVars, sheet_rows>>

\* ensure_user_record, lines 132-141: the user has a row; unless the cached
\* status is active the status cell is set to active (ok: update_cell did not
\* raise) and the cache follows.
ensure_existing(c, ok) ==
    /\ ensure_calls[c].pc = "existing"
    /\ LET user_id == ensure_calls[c].user_id
           row == ensure_calls[c].row_index - HeaderRows
       IN  IF user_status_cache[1][user_id] = "active" \/ ~ok
           THEN UNCHANGED <<sheet_rows, user_status_cache>>
           ELSE /\ sheet_rows' = [sheet_rows EXCEPT ![row].status = "active"]
                /\ user_status_cache' =
                      Some([user_status_cache[1] EXCEPT ![user_id] = "active"])
    /\ ensure_calls' = [ensure_calls EXCEPT ![c].pc = "returned"]
    /\ UNCHANGED <<nonUsersVars, row_index_cache, last_row_index>>

\* ensure_user_record, lines 142-151: the user had no row when looked up;
\* append_row, in its worker thread, adds the row below the last one (ok) or
\* raises, while the caller is suspended.
ensure_append(c, ok) ==
    /\ ensure_calls[c].pc = "append_row"
    /\ IF ok
       THEN /\ sheet_rows' = Append(sheet_rows, [user_id |-> ensure_calls[c].user_id,
                                                 status |-> "active"])
            /\ ensure_calls' = [ensure_calls EXCEPT ![c].pc = "appended"]
       ELSE /\ ensure_calls' = [ensure_calls EXCEPT ![c].pc = "returned"]
            /\ UNCHANGED sheet_rows
    /\ UNCHANGED <<nonUsersVars, row_index_cache, user_status_cache, last_row_index>>

\* ensure_user_record, lines 152-161: the caller goes on after append_row and
\* the caches take the new row at _last_row_index + 1 (the row index cache
\* and the chat row index cache get the same index).
ensure_cached(c) ==
    /\ ensure_calls[c].pc = "appended"
    /\ LET user_id == ensure_calls[c].user_id
           next_row_index == last_row_index + 1
       IN  /\ row_index_cache' =
                 Some([row_index_cache[1] EXCEPT ![user_id] = next_row_index])
           /\ user_status_cache' =
                 Some([user_status_cache[1] EXCEPT ![user_id] = "active"])
           /\ last_row_index' = next_row_index
    /\ ensure_calls' = [ensure_calls EXCEPT ![c].pc = "returned", ![c].created = TRUE]
    /\ UNCHANGED <<nonUsersVars, sheet_rows>>

UsersNext ==
    \/ \E c \in EnsureCalls, user_id \in UserIds : ensure_lookup(c, user_id)
    \/ \E c \in EnsureCalls, ok \in BOOLEAN : ensure_existing(c, ok)
    \/ \E c \in EnsureCalls, ok \in BOOLEAN : ensure_append(c, ok)
    \/ \E c \in EnsureCalls : ensure_cached(c)

UsersSpec == UsersInit /\ [][UsersNext]_vars

RowsOf(user_id) == {i \in 1 .. Len(sheet_rows) : sheet_rows[i].user_id = user_id}

\* C23: with no ensure_user_record call in flight, the worksheet holds at most
\* one row for every user id, and exactly one for every user id a call has
\* ended for without a worksheet failure.
C23_OneRowPerUser ==
    (\A c \in EnsureCalls : ensure_calls[c].pc \in {"idle", "returned"}) =>
        /\ \A u \in UserIds : Cardinality(RowsOf(u)) <= 1
        /\ \A c \in EnsureCalls :
              ensure_calls[c].pc = "returned" /\ ensure_calls[c].created
                 => Cardinality(RowsOf(ensure_calls[c].user_id)) = 1

\* C40: the row index cached for a user id is the index of a worksheet row
\* that holds that user id.
C40_CachedIndexIsUsersRow ==
    row_index_cache # None =>
        \A u \in UserIds :
            row_index_cache[1][u] # 0 =>
                /\ row_index_cache[1][u] - HeaderRows \in 1 .. Len(sheet_rows)
                /\ sheet_rows[row_index_cache[1][u] - HeaderRows].user_id = u

-----------------------------------------------------------------------------
(***************************************************************************)
(* RetrySpec: one call of _send_products_with_retry for a chat.  Each      *)
(* attempt is a call of _send_products_to_chat, which returns True, returns *)
(* False (SafeSender answered None: the chat is blocked) or raises; the    *)
(* backoff sleeps are steps of their own.  Times are in tenths of a        *)
(* second.                                                                 *)
(***************************************************************************)
\* The longest retry_after (seconds) a TelegramRetryAfter carries here.
MaxRetryAfter == 9

RetryAfterSeconds == {0 - 1, 2, MaxRetryAfter}
Raises(error, retry_after) == [kind |-> "raised", error |-> error, retry_after |-> retry_after]
\* What one _send_products_to_chat call can come to.
AttemptOutcomes ==
    { [kind |-> "returned", value |-> TRUE], [kind |-> "returned", value |-> FALSE] }
    \cup { Raises("TelegramRetryAfter", seconds) : seconds \in RetryAfterSeconds }
    \cup { Raises(error, 0) :
             error \in {"TelegramServerError", "TelegramNetworkError",
                        "TelegramBadRequest"} }

\* A plausible slip: every exception is taken for a transport error.
is_retryable_error_any(error) == TRUE

\* _is_retryable_error
is_retryable_error(error) ==
    error \in {"TelegramRetryAfter", "TelegramServerError", "TelegramNetworkError"}

\* lines 91-94: min(max(exc.retry_after, 0), 5) seconds after a rate limit,
\* 0.5 * attempt seconds after another retryable error.
BackoffOf(outcome, attempt) ==
    IF outcome.error = "TelegramRetryAfter"
    THEN 10 * Min(Max(outcome.retry_after, 0), 5)
    ELSE 5 * attempt

RetryInit ==
    /\ retry = [pc |-> "attempt", attempt |-> 1, history |-> <<>>, sleep |-> 0,
                result |-> None]
    /\ GateIdleInit
    /\ PromoIdleInit
    /\ OrderIdleInit
    /\ SenderIdleInit
    /\ RunIdleInit
    /\ PhoneIdleInit
    /\ DeliveryIdleInit
    /\ LogIdleInit
    /\ RenderIdleInit
    /\ UsersIdleInit
    /\ CardsIdleInit
    /\ StatusIdleInit
    /\ CacheIdleInit

\* _send_products_with_retry, lines 72-96: one pass of the loop body up to its
\* return or its sleep.
attempt_send(outcome) ==
    /\ retry.pc = "attempt"
    /\ retry.attempt <= max_attempts
    /\ LET history == Append(retry.history, outcome) IN
       IF outcome.kind = "returned"
       THEN retry' = [retry EXCEPT !.pc = "returned", !.history = history,
                         !.result = Some(IF outcome.value THEN "success"
                                                          ELSE "forbidden")]
       ELSE LET retryable == is_retryable_error(outcome.error) IN
            IF retryable /\ retry.attempt < max_attempts
            THEN retry' = [retry EXCEPT !.pc = "sleep", !.history = history,
                              !.sleep = BackoffOf(outcome, retry.attempt)]
            ELSE retry' = [retry EXCEPT !.pc = "returned", !.history = history,
                              !.result = Some(IF retryable THEN "temporary_error"
                                                           ELSE "permanent_error")]
    /\ UNCHANGED nonRetryVars

\* lines 91-95: asyncio.sleep returns and the loop continues with the next
\* attempt.
backoff_sleep ==
    /\ retry.pc = "sleep"
    /\ retry' = [retry EXCEPT !.pc = "attempt", !.attempt = @ + 1, !.sleep = 0]
    /\ UNCHANGED nonRetryVars

RetryNext ==
    \/ \E outcome \in AttemptOutcomes : attempt_send(outcome)
    \/ backoff_sleep

\* Every await of the call completes: a send returns or raises, a sleep ends.
RetrySpec == RetryInit /\ [][RetryNext]_vars /\ WF_vars(RetryNext)

TransportErrors == {"TelegramRetryAfter", "TelegramServerError", "TelegramNetworkError"}
RetryStatuses == {"success", "forbidden", "temporary_error", "permanent_error"}

\* The status that fits the last attempt of a finished call.
StatusOfLast(outcome) ==
    IF outcome.kind = "returned"
    THEN (IF outcome.value THEN "success" ELSE "forbidden")
    ELSE IF outcome.error \in TransportErrors THEN "temporary_error"
    ELSE "permanent_error"

RetrySafe ==
    LET made == Len(retry.history) IN
    /\ made <= 3
    /\ retry.sleep <= 50
    \* an attempt follows only a transport error
    /\ \A i \in 1 .. made - 1 :
          retry.history[i].kind = "raised" /\ retry.history[i].error \in TransportErrors
    /\ retry.result # None =>
          /\ made >= 1
          /\ retry.result[1] \in RetryStatuses
          /\ retry.result[1] = StatusOfLast(retry.history[made])
          /\ retry.result[1] = "temporary_error" => made = 3
    \* a transport error is retried until the limit
    /\ (made >= 1 /\ made < 3 /\ retry.result = None) => retry.pc \in {"sleep", "attempt"}

\* C30: a call makes at most three attempts and ends with one of success,
\* forbidden, temporary_error, permanent_error; only a transport error (rate
\* limit, server, network) is followed by another attempt, it is retried up
\* to the third attempt and then reported as temporary_error; and every call
\* ends.
C30_RetryBoundedAndClassified ==
    [](RetrySafe) /\ <>(retry.result # None)

\* A call ended as temporary_error after three transport errors.
C30_Witness ==
    /\ retry.result = Some("temporary_error")
    /\ Len(retry.history) = 3
    /\ retry.history[1].error = "TelegramRetryAfter"

-----------------------------------------------------------------------------
(***************************************************************************)
(* CardsSpec: one run of _broadcast_promo_impl (services/promo_scheduler.py)*)
(* past the loading of products and chats, card by card.  Every send_photo *)
(* of every attempt ends as the transport decides: a message, a refusal    *)
(* (SafeSender returns None), a retryable error or another error.  The     *)
(* sends of a batch are gathered; no send reads what another one writes,   *)
(* so they are completed here in list order, and the results of a batch    *)
(* are kept as the counts the run sums them into.                          *)
(***************************************************************************)
MaxBatchChats == 21

CardList == <<"p1", "p2">>
SendPhotoEnds == {"message", "None", "retryable", "other"}
ResultKinds == {"success", "forbidden", "temporary_error", "permanent_error"}
NoCounts == [k \in ResultKinds |-> 0]
EmptyInbox == [i \in 1 .. Len(CardList) |-> 0]

CardsInit ==
    /\ cards = [pc |-> "batch", chat_ids |-> [i \in 1 .. MaxBatchChats |-> i],
                batch_no |-> 1, done |-> 0, attempt |-> 1, card |-> 1,
                results |-> NoCounts, totals |-> NoCounts]
    /\ inbox = EmptyInbox
    /\ yielded = [c \in 1 .. MaxBatchChats |-> 0]
    /\ cards_result = None
    /\ GateIdleInit
    /\ PromoIdleInit
    /\ OrderIdleInit
    /\ SenderIdleInit
    /\ RunIdleInit
    /\ PhoneIdleInit
    /\ DeliveryIdleInit
    /\ LogIdleInit
    /\ RenderIdleInit
    /\ UsersIdleInit
    /\ RetryIdleInit
    /\ StatusIdleInit
    /\ CacheIdleInit

CardsBatch == Chunk(cards.chat_ids, max_parallel_sends, cards.batch_no)

\* _send_products_with_retry, lines 72-97, on a send_photo that did not
\* return a message: the result of the chat, or None when the loop goes on
\* to the next attempt.
gathered(end, attempt) ==
    CASE end = "None" -> Some("forbidden")
      [] end = "retryable" /\ attempt < max_attempts -> None
      [] end = "retryable" -> Some("temporary_error")
      [] end = "other" -> Some("permanent_error")

\* The chat being sent to has produced its result; the next send_photo goes
\* to the next chat of the batch, which has received nothing in this run.
ChatDone(chat_id, result) ==
    /\ cards' = [cards EXCEPT !.done = @ + 1, !.attempt = 1, !.card = 1,
                              !.results[result] = @ + 1]
    /\ yielded' = [yielded EXCEPT ![chat_id] = @ + 1]
    /\ inbox' = EmptyInbox

\* _send_products_to_chat, lines 52-63, inside _send_products_with_retry:
\* one send_photo of the chat whose turn it is.  Every attempt starts again
\* from the first product.
send_photo_of_card(end) ==
    /\ cards # None
    /\ cards.pc = "batch"
    /\ cards.done < Len(CardsBatch)
    /\ LET chat_id == CardsBatch[cards.done + 1] IN
       IF end = "message"
       THEN IF cards.card < Len(CardList)
            THEN /\ cards' = [cards EXCEPT !.card = @ + 1]
                 /\ inbox' = [inbox EXCEPT ![cards.card] = @ + 1]
                 /\ UNCHANGED yielded
            ELSE ChatDone(chat_id, "success")
       ELSE LET result == gathered(end, cards.attempt) IN
            IF result = None
            THEN /\ cards' = [cards EXCEPT !.attempt = @ + 1, !.card = 1]
                 /\ UNCHANGED <<inbox, yielded>>
            ELSE ChatDone(chat_id, result[1])
    /\ UNCHANGED <<nonCardsVars, cards_result>>

\* Counters that take only the deliveries and the refusals of a batch.
add_results_without_errors(totals, results) ==
    [k \in ResultKinds |->
        IF k \in {"success", "forbidden"} THEN totals[k] + results[k] ELSE totals[k]]

\* _broadcast_promo_impl, lines 167-170: each counter takes the number of
\* results of its kind.
add_results(totals, results) ==
    [k \in ResultKinds |-> totals[k] + results[k]]

\* _broadcast_promo_impl, lines 163-179: the gather is complete and the
\* counters take the results of the batch.
cards_batch_done ==
    /\ cards # None
    /\ cards.pc = "batch"
    /\ cards.done = Len(CardsBatch)
    /\ LET more == cards.batch_no < NumChunks(cards.chat_ids, max_parallel_sends) IN
       cards' = [cards EXCEPT
          !.totals = add_results(@, cards.results),
          !.results = NoCounts,
          !.done = 0,
          !.batch_no = IF more THEN @ + 1 ELSE @,
          !.pc = IF more THEN "batch" ELSE "summary"]
    /\ UNCHANGED <<nonCardsVars, inbox, yielded, cards_result>>

\* _broadcast_promo_impl, lines 181-210: after the flush of the refusals,
\* which lets no error out, the result is returned.
cards_return ==
    /\ cards # None
    /\ cards.pc = "summary"
    /\ cards' = [cards EXCEPT !.pc = "returned"]
    /\ cards_result' = Some(
          [status |-> IF cards.totals["temporary_error"] > 0
                         \/ cards.totals["permanent_error"] > 0
                      THEN "sent_with_failures" ELSE "sent",
           chats |-> Len(cards.chat_ids),
           products |-> Len(CardList),
           success |-> cards.totals["success"],
           forbidden |-> cards.totals["forbidden"],
           temporary_errors |-> cards.totals["temporary_error"],
           permanent_errors |-> cards.totals["permanent_error"]])
    /\ UNCHANGED <<nonCardsVars, inbox, yielded>>

CardsNext ==
    \/ \E end \in SendPhotoEnds : send_photo_of_card(end)
    \/ cards_batch_done
    \/ cards_return

CardsSpec == CardsInit /\ [][CardsNext]_vars /\ WF_vars(CardsNext)

\* Every loaded chat has produced exactly one result, and the four counters
\* of the returned result add up to the number of loaded chats.
CardsCounted ==
    /\ \A c \in Range(cards.chat_ids) : yielded[c] = 1
    /\ cards_result[1].chats = Len(cards.chat_ids)
    /\ cards_result[1].success + cards_result[1].forbidden
         + cards_result[1].temporary_errors + cards_result[1].permanent_errors
       = Len(cards.chat_ids)

\* C31: a run that is past loading reaches its return whatever the sends of
\* its chats end in, no chat ever yields more than one result, and at the
\* return every loaded chat has yielded exactly one and the four counters add
\* up to the number of loaded chats.
C31_EveryChatYieldsOneOutcome ==
    /\ [](cards # None =>
            /\ \A c \in Range(cards.chat_ids) : yielded[c] <= 1
            /\ cards_result # None => CardsCounted)
    /\ <>(cards # None => cards_result # None)

\* A returned run of two batches with a permanent error, an exhausted retry,
\* a refusal and a delivery among its chats.
C31_Witness ==
    /\ cards # None /\ cards_result # None
    /\ cards.batch_no = 2
    /\ cards_result[1].permanent_errors > 0
    /\ cards_result[1].temporary_errors > 0
    /\ cards_result[1].forbidden > 0
    /\ cards_result[1].success > 0

\* The send_photo of this step is the one that makes the result of its chat
\* success.
LastCardDelivered ==
    /\ cards # None /\ cards' # None
    /\ cards'.results["success"] = cards.results["success"] + 1

\* C37: within the run no card reaches a chat more than once, and a chat
\* whose result is success has received every card exactly once: when its
\* last card is delivered, it has every earlier card once and the last one
\* not yet.
C37_EachCardAtMostOnce ==
    /\ [](cards # None => \A i \in 1 .. Len(CardList) : inbox[i] <= 1)
    /\ [][LastCardDelivered =>
            \A i \in 1 .. Len(CardList) :
               inbox[i] = IF i < Len(CardList) THEN 1 ELSE 0]_vars

-----------------------------------------------------------------------------
(***************************************************************************)
(* StatusSpec: the calls that write the status of one user who has a row   *)
(* in the worksheet and in the caches (services/user_service.py):          *)
(* update_status from the membership events, ensure_user_record from       *)
(* /start, and update_status_by_chat_id(chat_id, False) from a flush of    *)
(* the SafeSender's pending set.  They run as coroutines on one event      *)
(* loop; update_cell runs in a worker thread, so the cell is written while *)
(* the caller is suspended and the caller goes on some time later.         *)
(***************************************************************************)
MaxWriters == 3

Writers == 1 .. MaxWriters
Statuses == {"active", "left"}
IdleWriter == [kind |-> "", pc |-> "idle", value |-> ""]

StatusInit ==
    /\ status_cell \in Statuses
    /\ cached_status = status_cell
    /\ user_lock = 0
    /\ writers = [w \in Writers |-> IdleWriter]
    /\ chat_pending = FALSE
    /\ reach = [started |-> FALSE, refused |-> FALSE, kicked |-> FALSE]
    /\ GateIdleInit
    /\ PromoIdleInit
    /\ OrderIdleInit
    /\ SenderIdleInit
    /\ RunIdleInit
    /\ PhoneIdleInit
    /\ DeliveryIdleInit
    /\ LogIdleInit
    /\ RenderIdleInit
    /\ UsersIdleInit
    /\ RetryIdleInit
    /\ CardsIdleInit
    /\ CacheIdleInit

\* status_value = "active" if is_active else "left"
status_value(is_active) == IF is_active THEN "active" ELSE "left"

\* ensure_user_record has returned: the user has started the bot again.
Started == [started |-> TRUE, refused |-> FALSE, kicked |-> FALSE]

\* SafeSender._handle_forbidden: a delivery to the chat is refused and the
\* chat id goes into the pending set.
delivery_refused ==
    /\ chat_pending' = TRUE
    /\ reach' = [reach EXCEPT !.refused = TRUE]
    /\ UNCHANGED <<nonStatusVars, status_cell, cached_status, user_lock, writers>>

\* update_status, lines 186-204: the call gets the per-user lock (it waits
\* while another call holds it), reads the cached status and returns when it
\* is the status to write; otherwise it goes into update_cell with the lock
\* held.
update_status_begin(w, is_active) ==
    /\ writers[w].pc = "idle"
    /\ \A v \in Writers : v < w => writers[v].pc # "idle"
    /\ user_lock = 0
    /\ IF cached_status = status_value(is_active)
       THEN /\ writers' = [writers EXCEPT ![w] =
                  [kind |-> "update_status", pc |-> "returned",
                   value |-> status_value(is_active)]]
            /\ UNCHANGED user_lock
       ELSE /\ writers' = [writers EXCEPT ![w] =
                  [kind |-> "update_status", pc |-> "update_cell",
                   value |-> status_value(is_active)]]
            /\ user_lock' = w
    /\ reach' = IF is_active THEN reach ELSE [reach EXCEPT !.kicked = TRUE]
    /\ UNCHANGED <<nonStatusVars, status_cell, cached_status, chat_pending>>

\* ensure_user_record, lines 126-136, for a user whose row is cached: under
\* the per-user lock the call returns False when the cached status is active
\* and otherwise goes into update_cell(row_index, STATUS_COLUMN, "active").
ensure_user_record_begin(w) ==
    /\ writers[w].pc = "idle"
    /\ \A v \in Writers : v < w => writers[v].pc # "idle"
    /\ user_lock = 0
    /\ IF cached_status = "active"
       THEN /\ writers' = [writers EXCEPT ![w] =
                  [kind |-> "ensure_user_record", pc |-> "returned",
                   value |-> "active"]]
            /\ reach' = Started
            /\ UNCHANGED user_lock
       ELSE /\ writers' = [writers EXCEPT ![w] =
                  [kind |-> "ensure_user_record", pc |-> "update_cell",
                   value |-> "active"]]
            /\ user_lock' = w
            /\ UNCHANGED reach
    /\ UNCHANGED <<nonStatusVars, status_cell, cached_status, chat_pending>>

\* flush_pending_forbidden_statuses, lines 40-54: the pending set is copied
\* and cleared, and update_status_by_chat_id(chat_id, False) is awaited for
\* the chat.
flush_take(w) ==
    /\ writers[w].pc = "idle"
    /\ \A v \in Writers : v < w => writers[v].pc # "idle"
    /\ chat_pending
    /\ chat_pending' = FALSE
    /\ writers' = [writers EXCEPT ![w] =
          [kind |-> "update_status_by_chat_id", pc |-> "taken", value |-> "left"]]
    /\ UNCHANGED <<nonStatusVars, status_cell, cached_status, user_lock, reach>>

\* update_status_by_chat_id, lines 211-236: no lock is taken; the cached
\* status of the user of the row is read, and the call returns when it is
\* left and otherwise goes into update_cell.
update_status_by_chat_id_begin(w) ==
    /\ writers[w].pc = "taken"
    /\ writers' = [writers EXCEPT ![w].pc =
          IF cached_status = "left" THEN "returned" ELSE "update_cell"]
    /\ UNCHANGED <<nonStatusVars, status_cell, cached_status, user_lock,
                   chat_pending, reach>>

\* SheetsClient.update_cell in its worker thread: the cell is written (ok) or
\* the call raises.  An error leaves the caller, which releases the per-user
\* lock when it holds it; the flush puts the chat id back into the pending
\* set (safe_sender.py, lines 62-75).
update_cell(w, ok) ==
    /\ writers[w].pc = "update_cell"
    /\ IF ok
       THEN /\ status_cell' = writers[w].value
            /\ writers' = [writers EXCEPT ![w].pc = "written"]
            /\ UNCHANGED <<user_lock, chat_pending>>
       ELSE /\ writers' = [writers EXCEPT ![w].pc = "raised"]
            /\ user_lock' = IF user_lock = w THEN 0 ELSE user_lock
            /\ chat_pending' = IF writers[w].kind = "update_status_by_chat_id"
                               THEN TRUE ELSE chat_pending
            /\ UNCHANGED status_cell
    /\ UNCHANGED <<nonStatusVars, cached_status, reach>>

\* The caller goes on after update_cell: the written status is recorded in
\* the status cache (under _cache_lock, without suspending), the per-user
\* lock is released by the calls that hold it, and the call returns.
status_recorded(w) ==
    /\ writers[w].pc = "written"
    /\ cached_status' = writers[w].value
    /\ user_lock' = IF user_lock = w THEN 0 ELSE user_lock
    /\ writers' = [writers EXCEPT ![w].pc = "returned"]
    /\ reach' = IF writers[w].kind = "ensure_user_record" THEN Started ELSE reach
    /\ UNCHANGED <<nonStatusVars, status_cell, chat_pending>>

StatusNext ==
    \/ delivery_refused
    \/ \E w \in Writers, is_active \in BOOLEAN : update_status_begin(w, is_active)
    \/ \E w \in Writers : ensure_user_record_begin(w)
    \/ \E w \in Writers : flush_take(w)
    \/ \E w \in Writers : update_status_by_chat_id_begin(w)
    \/ \E w \in Writers, ok \in BOOLEAN : update_cell(w, ok)
    \/ \E w \in Writers : status_recorded(w)

StatusSpec == StatusInit /\ [][StatusNext]_vars

\* The call has read the cached status and has not yet recorded its own.
InWrite(w) == writers[w].pc \in {"update_cell", "written"}

\* C33: no two status writers of the user are between reading the cached
\* status and recording the written status at the same time, and with no
\* writer in flight the cached status is the status in the worksheet row.
C33_WritersSerialized ==
    /\ \A v, w \in Writers : (InWrite(v) /\ InWrite(w)) => v = w
    /\ (\A w \in Writers : writers[w].pc \in {"idle", "returned", "raised"})
          => cached_status = status_cell

\* C34: after ensure_user_record has completed for the user, the status in
\* the worksheet is active as long as no delivery to the chat has been
\* refused and no membership event has reported the user as gone since.
C34_ActiveUntilRefusedAgain ==
    (reach.started /\ ~reach.refused /\ ~reach.kicked) => status_cell = "active"

-----------------------------------------------------------------------------
(***************************************************************************)
(* CacheSpec: the product cache of ProductService                          *)
(* (services/product_service.py).  get_products calls and the update_cache *)
(* calls of background_updater run as coroutines on one event loop while   *)
(* the product sheet is edited; a call is suspended while it waits for     *)
(* _update_lock and while fetch_rows reads the sheet.                      *)
(***************************************************************************)
MaxCacheCalls == 3

CacheCalls == 1 .. MaxCacheCalls
\* The lists fetch_rows can return: the promo rows of the sheet, in order.
ProductSheets == { <<>>, <<"p1">>, <<"p1", "p2">>, <<"p3", "p1">> }
Limits == {None, Some(1)}
IdleCacheCall ==
    [kind |-> "", pc |-> "idle", limit |-> None, rows |-> <<>>,
     before |-> <<>>, result |-> <<>>]

CacheInit ==
    /\ products_sheet \in ProductSheets
    /\ product_cache = <<>>
    /\ last_updated = None
    /\ update_lock = 0
    /\ cache_calls = [c \in CacheCalls |-> IdleCacheCall]
    /\ cache_clock = 1
    /\ GateIdleInit
    /\ PromoIdleInit
    /\ OrderIdleInit
    /\ SenderIdleInit
    /\ RunIdleInit
    /\ PhoneIdleInit
    /\ DeliveryIdleInit
    /\ LogIdleInit
    /\ RenderIdleInit
    /\ UsersIdleInit
    /\ RetryIdleInit
    /\ CardsIdleInit
    /\ StatusIdleInit

\* The sheet is edited.
sheet_edited(rows) ==
    /\ rows # products_sheet
    /\ \E c \in CacheCalls : cache_calls[c].pc = "idle"
    /\ products_sheet' = rows
    /\ UNCHANGED <<nonCacheVars, product_cache, last_updated, update_lock,
                   cache_calls, cache_clock>>

\* get_products, lines 51-54: list(self._cache), or self._cache[:limit].
Limited(cache, limit) ==
    IF limit = None THEN cache ELSE SubSeq(cache, 1, Min(limit[1], Len(cache)))

\* get_products, lines 48-54: with products in the cache the call returns
\* them without suspending; with an empty cache it goes into update_cache.
get_products(c, limit) ==
    /\ cache_calls[c].pc = "idle"
    /\ \A b \in CacheCalls : b < c => cache_calls[b].pc # "idle"
    /\ cache_calls' = [cache_calls EXCEPT ![c] =
          IF product_cache # <<>>
          THEN [IdleCacheCall EXCEPT !.kind = "get_products", !.pc = "returned",
                                     !.limit = limit, !.before = product_cache,
                                     !.result = Limited(product_cache, limit)]
          ELSE [IdleCacheCall EXCEPT !.kind = "get_products", !.pc = "update_lock",
                                     !.limit = limit, !.before = product_cache]]
    /\ UNCHANGED <<nonCacheVars, products_sheet, product_cache, last_updated,
                   update_lock, cache_clock>>

\* background_updater, lines 89-91: an iteration calls update_cache.
background_updater(c) ==
    /\ cache_calls[c].pc = "idle"
    /\ \A b \in CacheCalls : b < c => cache_calls[b].pc # "idle"
    /\ cache_calls' = [cache_calls EXCEPT ![c] =
          [IdleCacheCall EXCEPT !.kind = "background_updater", !.pc = "update_lock",
                                !.before = product_cache]]
    /\ UNCHANGED <<nonCacheVars, products_sheet, product_cache, last_updated,
                   update_lock, cache_clock>>

\* update_cache, line 59: the call gets _update_lock.
update_cache_locked(c) ==
    /\ cache_calls[c].pc = "update_lock"
    /\ update_lock = 0
    /\ update_lock' = c
    /\ cache_calls' = [cache_calls EXCEPT ![c].pc = "fetch_rows"]
    /\ UNCHANGED <<nonCacheVars, products_sheet, product_cache, last_updated,
                   cache_clock>>

\* update_cache, lines 61 and 69-71: fetch_rows reads the sheet (ok) or
\* raises; the error is logged and raised again, the lock is released, and a
\* get_products call that was refreshing raises with it.
update_cache_fetch(c, ok) ==
    /\ cache_calls[c].pc = "fetch_rows"
    /\ IF ok
       THEN /\ cache_calls' = [cache_calls EXCEPT ![c].pc = "fetched",
                                                  ![c].rows = products_sheet]
            /\ UNCHANGED update_lock
       ELSE /\ cache_calls' = [cache_calls EXCEPT ![c].pc = "raised"]
            /\ update_lock' = 0
    /\ UNCHANGED <<nonCacheVars, products_sheet, product_cache, last_updated,
                   cache_clock>>

\* A refresh that adds the fetched rows to the list in place.
refreshed_in_place(cache, rows) == cache \o rows

\* update_cache, line 62: the cache becomes a new list built from the rows.
refreshed(cache, rows) == rows

\* update_cache, lines 62-68, and get_products, lines 51-54: the caller goes
\* on after fetch_rows without suspending again: the new list and the time
\* are assigned, the lock is released, and a get_products call returns what
\* the cache holds.
update_cache_assign(c) ==
    /\ cache_calls[c].pc = "fetched"
    /\ product_cache' = refreshed(product_cache, cache_calls[c].rows)
    /\ last_updated' = Some(cache_clock)
    /\ cache_clock' = cache_clock + 1
    /\ update_lock' = 0
    /\ cache_calls' = [cache_calls EXCEPT
          ![c].pc = "returned",
          ![c].result = IF cache_calls[c].kind = "get_products"
                        THEN Limited(product_cache', cache_calls[c].limit)
                        ELSE <<>>]
    /\ UNCHANGED <<nonCacheVars, products_sheet>>

CacheNext ==
    \/ \E rows \in ProductSheets : sheet_edited(rows)
    \/ \E c \in CacheCalls, limit \in Limits : get_products(c, limit)
    \/ \E c \in CacheCalls : background_updater(c)
    \/ \E c \in CacheCalls : update_cache_locked(c)
    \/ \E c \in CacheCalls, ok \in BOOLEAN : update_cache_fetch(c, ok)
    \/ \E c \in CacheCalls : update_cache_assign(c)

CacheSpec == CacheInit /\ [][CacheNext]_vars

\* The lists the cache has held or been given while call c was running: the
\* one at its start and the ones fetched whole from the sheet.
WholeLists(c) == {cache_calls[c].before} \cup ProductSheets

\* C35: the cache always holds a list that was fetched whole; a get_products
\* call returns, up to its limit, the whole list the cache holds at that
\* moment, which is the list at its start or a list fetched since; and a
\* refresh whose fetch_rows fails leaves the cache and last_updated as they
\* were.
C35_CacheSwappedWhole ==
    /\ [](product_cache \in ProductSheets)
    /\ [][\A c \in CacheCalls :
            /\ (cache_calls[c].pc # "returned" /\ cache_calls'[c].pc = "returned"
                  /\ cache_calls'[c].kind = "get_products") =>
                  /\ cache_calls'[c].result =
                        Limited(product_cache', cache_calls'[c].limit)
                  /\ product_cache' \in WholeLists(c)
                  /\ \E whole \in ProductSheets :
                        cache_calls'[c].result = Limited(whole, cache_calls'[c].limit)
            /\ (cache_calls[c].pc # "raised" /\ cache_calls'[c].pc = "raised") =>
                  /\ product_cache' = product_cache
                  /\ last_updated' = last_updated]_vars

\* A get_products call has returned the whole new list of a refresh made
\* after the sheet was edited, and another refresh has failed with the cache
\* filled.
C35_Witness ==
    /\ \E c \in CacheCalls :
          /\ cache_calls[c].kind = "get_products"
          /\ cache_calls[c].pc = "returned"
          /\ cache_calls[c].limit = None
          /\ Len(cache_calls[c].result) = 2
    /\ \E c \in CacheCalls :
          /\ cache_calls[c].kind = "background_updater"
          /\ cache_calls[c].pc = "raised"
    /\ last_updated # None

====
